---------------------------- MODULE Spec2Model ----------------------------
(***************************************************************************)
(* A model of libTLE: the test-and-set spinlock (tle/spinlock.h), the      *)
(* reader/writer spinlock (rwlock.h), the mutex kinds of tle/mutex.h with  *)
(* their per-thread handles, and the profile counters (profile.h).         *)
(*                                                                         *)
(* Every atomic instruction of the lock code is one step of one thread.    *)
(* Statements that touch only thread-private data (the handle status, the  *)
(* profile block, num_retries, xstatus) are executed together with the     *)
(* shared-memory step that precedes them.  A busy-wait iteration that      *)
(* changes nothing is a stuttering step.                                   *)
(*                                                                         *)
(* A hardware transaction (tme.h, <immintrin.h>) keeps a read set and a    *)
(* write buffer.  A write by another thread to a location of its read or   *)
(* write set aborts it at once: memory written inside the transaction (the *)
(* handle status, the buffered counter) is rolled back and the thread      *)
(* resumes at the outermost _xbegin with an abort status.  Transactions    *)
(* nest by flattening: an abort at any depth rolls back to the outermost   *)
(* begin.                                                                  *)
(***************************************************************************)
EXTENDS Integers, FiniteSets, Sequences, TLC

VARIABLES
    cfg,        \* the build and its hardware: target, register allocation, NDEBUG,
                \* mutex type, retry limit, outcome of an unpredictable instruction
    slock,      \* libtle_spin_mutex_t.state / libtle_htm_spin_mutex_t.state
    rwlock,     \* libtle_spin_shared_mutex_t.state / libtle_htm_spin_shared_mutex_t.state
    wflag,      \* libtle_htm_spin_shared_mutex_t.wflag
    g_i,        \* the shared counter of the examples
    th          \* per thread: program position, handle, locals, profile

vars == <<cfg, slock, rwlock, wflag, g_i, th>>

Threads == DOMAIN th

\* "x86", "aarch64", or "generic" (the portable C11 branch of spinlock.h and rwlock.h)
arch == cfg.arch

\* "null", "spin", "rw" (spin_shared_mutex), "htm" (htm_spin_mutex), "hsm" (htm_spin_shared_mutex)
kind == cfg.kind

\* LIBTLE_HTM_SPIN_MUTEX_RETRY_LIMIT and its two siblings, as set by the build
R == cfg.R

-----------------------------------------------------------------------------
(* Bounds of the model.                                                    *)

\* threads contending for the plain spinlock
NSpin == 3
\* threads contending for the reader/writer spinlock
NRW == 3
\* threads using the other mutex kinds
NThreads == 2
\* lock operations each thread performs
MaxOps == 2
\* largest retry limit a build is given
MaxRetry == 2
\* aborts the hardware raises on its own in one thread
MaxHwAborts == 1

-----------------------------------------------------------------------------
(* enum libtle_mutex_status_t                                              *)

UNKNOWN       == "UNKNOWN"
UNLOCKED      == "UNLOCKED"
LOCKED_UNIQUE == "LOCKED_UNIQUE"
LOCKED_SHARED == "LOCKED_SHARED"
ELIDED        == "ELIDED"

\* the enum's numeric values, used by assert(st->status <= UNLOCKED)
StatusValue(st) ==
    CASE st = UNKNOWN       -> 0
      [] st = UNLOCKED      -> 1
      [] st = LOCKED_UNIQUE -> 2
      [] st = LOCKED_SHARED -> 3
      [] st = ELIDED        -> 4

\* #ifndef NDEBUG: the handles of every mutex type but the
\* htm_spin_shared_mutex have their status field only in a build without
\* -DNDEBUG, and only there do lock and unlock write it
StatusTracked == kind = "hsm" \/ ~cfg.ndebug

\* st->status = v;
SetStatus(r, v) == IF StatusTracked THEN [r EXCEPT !.status = v] ELSE r

\* assert(st->status <= LIBTLE_MUTEX_STATUS_UNLOCKED) at the head of every lock
\* (assert expands to nothing with -DNDEBUG)
LockAssertOff(st) == TRUE
LockAssert(st) == cfg.ndebug \/ StatusValue(st) <= StatusValue(UNLOCKED)

\* assert(st->status == v) at the head of the unlocks without a switch
UnlockAssert(st, v) == cfg.ndebug \/ st = v

-----------------------------------------------------------------------------
(* libtle_spinlock_t: on x86-64 the word is 1 when free and <= 0 when      *)
(* busy; elsewhere it is 0 when free and non-zero when busy.               *)

\* libtle_spinlock_init, and the value libtle_spinlock_unlock stores
SpinFree == IF arch = "x86" THEN 1 ELSE 0

\* the value libtle_spinlock_lock_uncontended stores
SpinBusy == IF arch = "x86" THEN 0 ELSE 1

\* libtle_spinlock_is_locked
SpinIsLockedNever(w) == FALSE
SpinIsLocked(w) == IF arch = "x86" THEN w <= 0 ELSE w # 0

\* x86: "lock ; decl %0 ; jns 2f" acquires when the decremented word is not negative
DecAcquiresAtMinusOne(w) == w - 1 >= -1
DecAcquires(w) == w - 1 >= 0

\* portable: atomic_exchange(&lck->lock, 1) acquires when the old value was 0
XchgAcquiresNever(old) == FALSE
XchgAcquires(old) == old = 0

-----------------------------------------------------------------------------
(* libtle_rwlock_t: bit 0 active writer, bit 1 pending writer, bits 2..31  *)
(* the reader count.  The word is kept as its three fields; adding or      *)
(* subtracting 4 changes only the count, modulo its 30 bits.               *)

RCountMod == 1073741824

RWWord(a, p, n) == [aw |-> a, pw |-> p, rc |-> n]

\* libtle_rwlock_init: 0u
RWZero == RWWord(0, 0, 0)

\* the constant 1u that write_lock stores
RWOneKeepsPending == [rwlock EXCEPT !.aw = 1]
RWOne == RWWord(1, 0, 0)

\* !(s & ~2u): no active writer and no reader
NoHolder(s) == s.aw = 0 /\ s.rc = 0

\* !(s & 3u): no active and no pending writer
NoActiveWriter(s) == s.aw = 0
NoWriter(s) == s.aw = 0 /\ s.pw = 0

\* atomic_fetch_or(&lck->lock, 2u)
FetchOr2(s) == [s EXCEPT !.pw = 1]

\* atomic_fetch_add(&lck->lock, 4u)
FetchAdd4(s) == [s EXCEPT !.rc = (@ + 1) % RCountMod]

\* atomic_fetch_sub(&lck->lock, 4u)
FetchSubNone(s) == s
FetchSub4(s) == [s EXCEPT !.rc = (@ - 1) % RCountMod]

\* atomic_fetch_and(&lck->lock, ~3u)
FetchAndNot1(s) == [s EXCEPT !.aw = 0]
FetchAndNot3(s) == [s EXCEPT !.aw = 0, !.pw = 0]

\* libtle_rwlock_is_locked: the word is non-zero
RWIsLockedByWriter(s) == s.aw = 1
RWIsLocked(s) == s # RWZero

\* AArch64: "stlxr %w0, %w0, %1" names one register as the status result and
\* as the value to store, which the architecture leaves CONSTRAINED
\* UNPREDICTABLE: the core stores the register's value, stores an UNKNOWN value,
\* or executes the instruction as a NOP (or takes it as UNDEFINED, which like
\* the NOP stores nothing and never lets the loop finish).
StlxrSame(v) ==
    IF cfg.sxr = "value" THEN {v}
    ELSE IF cfg.sxr = "unknown" THEN {RWZero, RWWord(1, 1, 1)}
    ELSE {}

\* What EAX holds when the x86 write_lock is entered and tmp was given another
\* register: at -O0 the low half of the lock's address (64-byte aligned), which
\* read as a lock word is a reader count of a multiple of 16.
EaxAtEntry == RWWord(0, 0, 16)

-----------------------------------------------------------------------------
(* Abort statuses: the set of the status word's flag bits that are set.    *)

XSTARTED == {"STARTED"}

LOCK_IS_LOCKED_X86 == 255

LOCK_IS_LOCKED_A64 == 65535

\* the immediate's bit 15, which tcancel copies to the RETRY bit of the status
TCancelRetryBit16(imm) == (imm \div 65536) % 2 = 1
TCancelRetry(imm) == (imm \div 32768) % 2 = 1

\* the status _xbegin returns after _xabort(LIBTLE_LOCK_IS_LOCKED)
XAbortStatus ==
    IF arch = "x86"
    THEN {"EXPLICIT"}
    ELSE {"EXPLICIT"} \cup (IF TCancelRetry(LOCK_IS_LOCKED_A64) THEN {"RETRY"} ELSE {})

\* the status of an abort by a data conflict
ConflictStatus == {"CONFLICT", "RETRY"}

\* the statuses of the other aborts the hardware raises (capacity, a nested
\* abort, an interrupt or fault with no flag, a bare retry hint)
HwAborts == {{"CAPACITY"}, {"NESTED"}, {}, {"RETRY"}}

\* _XBEGIN_RESTART(s)
XBEGIN_RESTART(a) ==
    IF arch = "x86"
    THEN a \cap {"EXPLICIT", "RETRY", "CONFLICT"} # {}
    ELSE "RETRY" \in a

-----------------------------------------------------------------------------
(* libtle_htm_mutex_profile_t (the plain libtle_mutex_profile_t uses only  *)
(* locks_acquired).                                                        *)

ProfileInit ==
    [ locks_acquired  |-> 0, locks_elided    |-> 0, explicit_aborts |-> 0,
      conflict_aborts |-> 0, capacity_aborts |-> 0, nested_aborts   |-> 0,
      other_aborts    |-> 0 ]

\* libtle_htm_mutex_profile_update_abort
UpdateAbortNot(p, a) == p
UpdateAbortExplicitFirst(p, a) ==
    IF "EXPLICIT" \in a THEN [p EXCEPT !.explicit_aborts = @ + 1]
    ELSE IF "CONFLICT" \in a THEN [p EXCEPT !.conflict_aborts = @ + 1]
    ELSE IF "CAPACITY" \in a THEN [p EXCEPT !.capacity_aborts = @ + 1]
    ELSE IF "NESTED" \in a THEN [p EXCEPT !.nested_aborts = @ + 1]
    ELSE [p EXCEPT !.other_aborts = @ + 1]
UpdateAbort(p, a) ==
    IF "CONFLICT" \in a THEN [p EXCEPT !.conflict_aborts = @ + 1]
    ELSE IF "EXPLICIT" \in a THEN [p EXCEPT !.explicit_aborts = @ + 1]
    ELSE IF "CAPACITY" \in a THEN [p EXCEPT !.capacity_aborts = @ + 1]
    ELSE IF "NESTED" \in a THEN [p EXCEPT !.nested_aborts = @ + 1]
    ELSE [p EXCEPT !.other_aborts = @ + 1]

\* libtle_htm_mutex_profile_update_unlock / libtle_mutex_profile_update_unlock
UpdateUnlockNot(p) == p
UpdateUnlock(p) == [p EXCEPT !.locks_acquired = @ + 1]

\* libtle_htm_mutex_profile_update_commit
UpdateCommit(p) == [p EXCEPT !.locks_elided = @ + 1]

Aborts(p) ==
    p.explicit_aborts + p.conflict_aborts + p.capacity_aborts
        + p.nested_aborts + p.other_aborts

\* libtle_mutex_profile_internally_consistent
PlainConsistent(p, sum) == p.locks_acquired = sum

\* libtle_htm_mutex_profile_internally_consistent
HtmConsistent(p, sum) ==
    /\ p.locks_acquired + p.locks_elided = sum
    /\ \/ p.locks_acquired <= Aborts(p)
       \/ Aborts(p) = 0 /\ p.locks_elided = 0

\* libtle_htm_mutex_profile_accumulate
Accumulate(p, q) ==
    [ locks_acquired  |-> p.locks_acquired  + q.locks_acquired,
      locks_elided    |-> p.locks_elided    + q.locks_elided,
      explicit_aborts |-> p.explicit_aborts + q.explicit_aborts,
      conflict_aborts |-> p.conflict_aborts + q.conflict_aborts,
      capacity_aborts |-> p.capacity_aborts + q.capacity_aborts,
      nested_aborts   |-> p.nested_aborts   + q.nested_aborts,
      other_aborts    |-> p.other_aborts    + q.other_aborts ]

-----------------------------------------------------------------------------
(* Threads.                                                                *)

\* "no value" of the transactional write buffer
NoVal == -1

\* A thread after libtle_*_handle_init and libtle_*_profile_init, before its
\* first operation.
\*   pc      position: "idle" outside lock/unlock, "cs".."cs_x" in the critical
\*           section, otherwise a label inside the lock or unlock code
\*   op      "x" for lock()/unlock(), "s" for lock_shared()/unlock_shared()
\*   status  libtle_*_mutex_handle_t.status
\*   saved   the status at the outermost transaction begin (what an abort restores)
\*   nr, xs  num_retries and xstatus of the lock call in progress
\*   depth   transaction nesting depth; outer: the outermost transaction is the
\*           caller's own, begun before lock() was called
\*   rs      transactional read set; wbuf: the counter as written in the transaction
\*   tmp     the counter value read in the critical section
\*   acc     the accumulator register (EAX) in libtle_rwlock_write_lock
\*   prof    the profile block passed as p
\*   ops, nested, inner, incs, pend, commits, begins, cause, hw: history kept
\*           for stating properties and bounds (operations completed, of which
\*           inside a caller's transaction, of which inside the current one;
\*           increments made durable and pending; commits of transactions that
\*           held an elided critical section; begins of the current lock call;
\*           reason of the last abort; aborts the hardware raised on its own)
\*   misuse  the contract violation the caller has made on this handle, if any
\*   scope   the tle::unique_lock / tle::shared_lock alive on this handle:
\*           "owning" when constructed without defer_lock, "deferred" with it
InitThread ==
    [ pc |-> "idle", op |-> "x", status |-> UNKNOWN, saved |-> UNKNOWN,
      nr |-> 0, xs |-> XSTARTED, cause |-> "none", begins |-> 0,
      depth |-> 0, outer |-> FALSE, rs |-> {}, wbuf |-> NoVal,
      tmp |-> 0, acc |-> RWZero, prof |-> ProfileInit,
      ops |-> 0, nested |-> 0, inner |-> 0, incs |-> 0, pend |-> 0,
      commits |-> 0, hw |-> 0, misuse |-> "none", scope |-> "none" ]

\* if (p) ...: whether the caller passes a profile block
HasProfile == cfg.prof

\* _xtest()
InTx(r) == r.depth > 0

\* the thread is between the return of its lock call and its unlock call
InCS(t) == th[t].pc \in {"cs", "cs_w", "cs_x"}

\* the status a lock call leaves when it took the lock itself
FallbackStatusUnlocked(o) == UNLOCKED
FallbackStatus(o) == IF o = "x" THEN LOCKED_UNIQUE ELSE LOCKED_SHARED

\* return from a lock call with handle status st (xstatus and the accumulator
\* are dead from here on)
Locked(r, st) ==
    [SetStatus(r, st) EXCEPT !.pc = "cs", !.xs = XSTARTED, !.cause = "none",
                             !.acc = RWZero]

\* entry of libtle_spinlock_lock
EnterSpinLock(r) == [r EXCEPT !.pc = IF arch = "x86" THEN "sl_dec" ELSE "sl_tas"]

\* the x86 build in which the compiler gave tmp a register other than EAX
EaxIsNotTmp == arch = "x86" /\ ~cfg.eaxIsTmp

\* entry of libtle_rwlock_write_lock
EnterWriteLock(r) ==
    [r EXCEPT !.pc = IF arch = "aarch64" THEN "wl_llsc" ELSE "wl_load",
              !.acc = IF EaxIsNotTmp THEN EaxAtEntry ELSE RWZero]

\* entry of libtle_rwlock_read_lock
EnterReadLock(r) == [r EXCEPT !.pc = IF arch = "aarch64" THEN "rl_llsc" ELSE "rl_load"]

\* "we failed too many times; grab the lock!"
EnterFallbackRetries(r) == [r EXCEPT !.pc = "hl_wait"]
EnterFallback(r) ==
    IF kind = "htm" THEN EnterSpinLock(r)
    ELSE IF r.op = "x" THEN EnterWriteLock(r)
    ELSE EnterReadLock(r)

\* while (_XBEGIN_RESTART(xstatus) && num_retries < LIMIT)
RetryAllowedOnceMore(n) == n <= R
RetryAllowed(n) == n < R

\* What an abort does to the thread that was in the transaction.  With the
\* library's own _xbegin outermost, control returns there with status a:
\* ++num_retries, the profile update, and the loop condition follow.  With the
\* caller's transaction outermost, control returns to the caller's begin, the
\* caller gives the operation up, and nothing the thread did since (its
\* handle status, the operations it completed inside) survives.
Aborted(r, a, why) ==
    LET base == [r EXCEPT !.status = r.saved, !.saved = UNKNOWN, !.depth = 0, !.rs = {},
                          !.wbuf = NoVal, !.pend = 0, !.inner = 0, !.tmp = 0,
                          !.xs = a, !.cause = why]
    IN  IF r.outer
        THEN [base EXCEPT !.pc = "idle", !.outer = FALSE,
                          !.ops = @ - r.inner, !.nested = @ - r.inner]
        ELSE LET n == r.nr + 1
                 b == [base EXCEPT !.nr = n,
                                   !.prof = IF HasProfile THEN UpdateAbort(@, a) ELSE @]
             IN  IF XBEGIN_RESTART(a) /\ RetryAllowed(n)
                 THEN [b EXCEPT !.pc = "hl_wait"]
                 ELSE EnterFallback(b)

\* the other threads whose transaction has location l in its read set
Readers(t, l) == {u \in Threads \ {t} : InTx(th[u]) /\ l \in th[u].rs}

\* the other threads whose transaction has written the counter
Writers(t) == {u \in Threads \ {t} : InTx(th[u]) /\ th[u].wbuf # NoVal}

\* thread t becomes self and the transactions of V abort on a conflict
Step(t, self, V, why) ==
    th' = [u \in Threads |->
             IF u = t THEN self
             ELSE IF u \in V THEN Aborted(th[u], ConflictStatus, why)
             ELSE th[u]]

\* a store or atomic read-modify-write to lock word l outside a transaction
LockWordStep(t, self, l) == Step(t, self, Readers(t, l), "lockword")

-----------------------------------------------------------------------------
(* Entry of the lock operations.                                           *)

\* the caller may start an operation: it is outside lock/unlock, has
\* operations left to do, and the assertion at the head of lock passes
CanCall(t) ==
    /\ th[t].pc = "idle"
    /\ th[t].ops < MaxOps
    /\ LockAssert(th[t].status)

\* the locals of a lock call at its entry: int num_retries = 0; unsigned xstatus;
Entered(r, o) ==
    [r EXCEPT !.op = o, !.nr = 0, !.xs = XSTARTED, !.cause = "none", !.begins = 0]

\* libtle_null_mutex_lock, libtle_null_shared_mutex_lock / _lock_shared
NullLock(t, o) ==
    /\ kind \in {"null", "nullsh"}
    /\ o = "x" \/ kind = "nullsh"
    /\ CanCall(t)
    /\ th' = [th EXCEPT ![t] = Locked(Entered(@, o), FallbackStatus(o))]
    /\ UNCHANGED <<cfg, slock, rwlock, wflag, g_i>>

\* libtle_spin_mutex_lock up to its call of libtle_spinlock_lock
SpinMutexLock(t) ==
    /\ kind = "spin"
    /\ CanCall(t)
    /\ th' = [th EXCEPT ![t] = EnterSpinLock(Entered(@, "x"))]
    /\ UNCHANGED <<cfg, slock, rwlock, wflag, g_i>>

\* libtle_spin_shared_mutex_lock / _lock_shared up to the rwlock call
SpinSharedMutexLock(t, o) ==
    /\ kind = "rw"
    /\ CanCall(t)
    /\ th' = [th EXCEPT ![t] = IF o = "x" THEN EnterWriteLock(Entered(@, o))
                                          ELSE EnterReadLock(Entered(@, o))]
    /\ UNCHANGED <<cfg, slock, rwlock, wflag, g_i>>

\* libtle_htm_spin_mutex_lock, libtle_htm_spin_shared_mutex_lock / _lock_shared
\* up to the head of the do-loop
HtmLock(t, o) ==
    /\ kind \in {"htm", "hsm"}
    /\ o = "x" \/ kind = "hsm"
    /\ CanCall(t)
    /\ th' = [th EXCEPT ![t] = [Entered(@, o) EXCEPT !.pc = "hl_wait"]]
    /\ UNCHANGED <<cfg, slock, rwlock, wflag, g_i>>

-----------------------------------------------------------------------------
(* libtle_spinlock_lock                                                    *)

\* x86: lock ; decl %0 ; jns 2f
SpinDec(t) ==
    /\ th[t].pc = "sl_dec"
    /\ slock' = slock - 1
    /\ LockWordStep(t, IF DecAcquires(slock)
                       THEN Locked(th[t], FallbackStatus("x"))
                       ELSE [th[t] EXCEPT !.pc = "sl_spin"], "slock")
    /\ UNCHANGED <<cfg, rwlock, wflag, g_i>>

\* x86: 3: pause ; cmpl $0, %0 ; jle 3b ; jmp 1b
SpinSpin(t) ==
    /\ th[t].pc = "sl_spin"
    /\ ~(slock <= 0)
    /\ th' = [th EXCEPT ![t].pc = "sl_dec"]
    /\ UNCHANGED <<cfg, slock, rwlock, wflag, g_i>>

\* aarch64: ldaxr ; cbnz 1b ; stxr ; cbnz 2b  (the exclusive pair succeeds only
\* on a word that stayed zero).  Portable: atomic_exchange(&lck->lock, 1).
SpinTas(t) ==
    /\ th[t].pc = "sl_tas"
    /\ arch = "aarch64" => slock = 0
    /\ slock' = 1
    /\ LockWordStep(t, IF XchgAcquires(slock)
                       THEN Locked(th[t], FallbackStatus("x"))
                       ELSE th[t], "slock")
    /\ UNCHANGED <<cfg, rwlock, wflag, g_i>>

-----------------------------------------------------------------------------
(* libtle_rwlock_write_lock                                                *)

\* where write_lock returns to: the spin_shared_mutex sets the status, the
\* htm_spin_shared_mutex goes on to libtle_spinlock_lock_uncontended(&wflag)
WriteLocked(r) ==
    IF kind = "hsm" THEN [r EXCEPT !.pc = "wf_set", !.acc = RWZero]
    ELSE Locked(r, FallbackStatus("x"))

\* x86: 1: mov %0, %1 ; testl $0xfffffffd, %1 ; je 3f ; testb $0x2, %b1 ; jne 2f
\* portable: s = atomic_load(&lck->lock); if (!(s & ~2u)) .. else if (!(s & 2u)) ..
\* The loaded value reaches the accumulator only when tmp is EAX.
WlLoad(t) ==
    /\ th[t].pc = "wl_load"
    /\ NoHolder(rwlock) \/ rwlock.pw = 0
    /\ th' = [th EXCEPT ![t].pc = IF NoHolder(rwlock) THEN "wl_cas" ELSE "wl_or",
                        ![t].acc = IF EaxIsNotTmp THEN @ ELSE rwlock]
    /\ UNCHANGED <<cfg, slock, rwlock, wflag, g_i>>

\* x86: 3: lock ; cmpxchg %2, %0 ; jne 2b  (compares EAX with the word; stores
\* 1 when equal, loads the word into EAX when not; the locked instruction takes
\* the line for writing either way)
\* portable: atomic_compare_exchange_strong(&lck->lock, &s, 1u)
WlCas(t) ==
    /\ th[t].pc = "wl_cas"
    /\ IF rwlock = th[t].acc
       THEN /\ rwlock' = RWOne
            /\ LockWordStep(t, WriteLocked(th[t]), "rwlock")
       ELSE /\ rwlock' = rwlock
            /\ LockWordStep(t, [th[t] EXCEPT !.pc = "wl_load", !.acc = rwlock], "rwlock")
    /\ UNCHANGED <<cfg, slock, wflag, g_i>>

\* x86: lock ; orl $0x2, %0     portable: atomic_fetch_or(&lck->lock, 2u)
WlOr(t) ==
    /\ th[t].pc = "wl_or"
    /\ rwlock' = FetchOr2(rwlock)
    /\ LockWordStep(t, [th[t] EXCEPT !.pc = "wl_load"], "rwlock")
    /\ UNCHANGED <<cfg, slock, wflag, g_i>>

\* aarch64: 2: ldaxr ; tst #0xfffffffd ; b.eq 3f ; tbnz #1, 1b ; orr #0x2 ;
\* stlxr ; b 2b ; 3: stlxr %w0, %w2 ; cbnz 2b.  A store-exclusive that succeeds
\* makes its load and store one atomic step; one that fails changes nothing.
\* The store of the pending bit is the one with the register named twice.
WlLlsc(t) ==
    /\ th[t].pc = "wl_llsc"
    /\ NoHolder(rwlock) \/ rwlock.pw = 0
    /\ IF NoHolder(rwlock)
       THEN rwlock' = RWOne
       ELSE rwlock' \in StlxrSame(FetchOr2(rwlock))
    /\ LockWordStep(t, IF NoHolder(rwlock) THEN WriteLocked(th[t]) ELSE th[t], "rwlock")
    /\ UNCHANGED <<cfg, slock, wflag, g_i>>

-----------------------------------------------------------------------------
(* libtle_rwlock_read_lock                                                 *)

\* x86: 1: mov %0, %1 ; testb $0x3, %b1 ; jne 2f
\* portable: s = atomic_load(&lck->lock); if (!(s & 3u))
RlLoad(t) ==
    /\ th[t].pc = "rl_load"
    /\ NoWriter(rwlock)
    /\ th' = [th EXCEPT ![t].pc = "rl_add"]
    /\ UNCHANGED <<cfg, slock, rwlock, wflag, g_i>>

\* x86: mov $0x4, %1 ; lock ; xadd %1, %0 ; testb $0x1, %b1 ; je 3f
\* portable: t = atomic_fetch_add(&lck->lock, 4u); if (!(t & 1u)) break;
RlAddSetsFlag(t) ==
    /\ th[t].pc = "rl_add"
    /\ rwlock' = FetchAdd4(rwlock)
    /\ wflag' = SpinBusy
    /\ LockWordStep(t, IF rwlock.aw = 0
                       THEN Locked(th[t], FallbackStatus("s"))
                       ELSE [th[t] EXCEPT !.pc = "rl_undo"], "rwlock")
    /\ UNCHANGED <<cfg, slock, g_i>>
RlAdd(t) ==
    /\ th[t].pc = "rl_add"
    /\ rwlock' = FetchAdd4(rwlock)
    /\ LockWordStep(t, IF rwlock.aw = 0
                       THEN Locked(th[t], FallbackStatus("s"))
                       ELSE [th[t] EXCEPT !.pc = "rl_undo"], "rwlock")
    /\ UNCHANGED <<cfg, slock, wflag, g_i>>

\* x86: lock ; subl $0x4, %0    portable: atomic_fetch_sub(&lck->lock, 4u)
RlUndo(t) ==
    /\ th[t].pc = "rl_undo"
    /\ rwlock' = FetchSub4(rwlock)
    /\ LockWordStep(t, [th[t] EXCEPT !.pc = "rl_load"], "rwlock")
    /\ UNCHANGED <<cfg, slock, wflag, g_i>>

\* aarch64: 2: ldaxr ; tst #0x3 ; b.ne 1b ; add #0x4 ; stlxr %w0, %w0 ; cbnz 2b
RlLlsc(t) ==
    /\ th[t].pc = "rl_llsc"
    /\ NoWriter(rwlock)
    /\ rwlock' \in StlxrSame(FetchAdd4(rwlock))
    /\ LockWordStep(t, Locked(th[t], FallbackStatus("s")), "rwlock")
    /\ UNCHANGED <<cfg, slock, wflag, g_i>>

-----------------------------------------------------------------------------
(* The transactional path of the HTM mutexes.                              *)

\* the lock word a lock call waits on and subscribes to: mtx->state of the
\* htm_spin_mutex; mtx->state (the rwlock) for lock() and mtx->wflag for
\* lock_shared() of the htm_spin_shared_mutex
SubWordState(r) == IF kind = "htm" THEN "slock" ELSE "rwlock"
SubWord(r) ==
    IF kind = "htm" THEN "slock"
    ELSE IF r.op = "x" THEN "rwlock"
    ELSE "wflag"

\* libtle_spinlock_is_locked / libtle_rwlock_is_locked on that word
IsLockedNever(l) == FALSE
IsLocked(l) ==
    IF l = "rwlock" THEN RWIsLocked(rwlock)
    ELSE IF l = "slock" THEN SpinIsLocked(slock)
    ELSE SpinIsLocked(wflag)

\* a load of lock word l inside a transaction puts it in the read set
SubscribeNot(r, l) == r
Subscribe(r, l) == [r EXCEPT !.rs = @ \cup {l}]

\* libtle_spinlock_unlock_wait / libtle_rwlock_unlock_wait: leaves the loop
\* when the word reads free; inside a caller's transaction each load also
\* puts the word in the read set
HlWaitSkips(t) ==
    /\ th[t].pc = "hl_wait"
    /\ th' = [th EXCEPT ![t].pc = "hl_begin"]
    /\ UNCHANGED <<cfg, slock, rwlock, wflag, g_i>>
HlWait(t) ==
    LET r == th[t]
        l == SubWord(r)
    IN  /\ r.pc = "hl_wait"
        /\ ~IsLocked(l) \/ (InTx(r) /\ l \notin r.rs)
        /\ th' = [th EXCEPT ![t] =
                    [(IF InTx(r) THEN Subscribe(r, l) ELSE r)
                        EXCEPT !.pc = IF IsLocked(l) THEN "hl_wait" ELSE "hl_begin"]]
        /\ UNCHANGED <<cfg, slock, rwlock, wflag, g_i>>

\* xstatus = _xbegin() returning _XBEGIN_STARTED
HlBegin(t) ==
    LET r == th[t]
    IN  /\ r.pc = "hl_begin"
        /\ th' = [th EXCEPT ![t].pc = "hl_check",
                            ![t].depth = @ + 1,
                            ![t].saved = IF InTx(r) THEN @ ELSE r.status,
                            ![t].begins = @ + 1]
        /\ UNCHANGED <<cfg, slock, rwlock, wflag, g_i>>

\* the status the transactional path leaves
ElidedStatus == ELIDED

\* if (is_locked(..)) { _xabort(LIBTLE_LOCK_IS_LOCKED); } st->status = ELIDED; return;
HlCheckNoAbort(t) ==
    /\ th[t].pc = "hl_check"
    /\ th' = [th EXCEPT ![t] = Locked(Subscribe(@, SubWord(@)), ElidedStatus)]
    /\ UNCHANGED <<cfg, slock, rwlock, wflag, g_i>>
HlCheck(t) ==
    LET l == SubWord(th[t])
        r == Subscribe(th[t], l)
    IN  /\ r.pc = "hl_check"
        /\ th' = [th EXCEPT ![t] = IF IsLocked(l)
                                   THEN Aborted(r, XAbortStatus, "explicit")
                                   ELSE Locked(r, ElidedStatus)]
        /\ UNCHANGED <<cfg, slock, rwlock, wflag, g_i>>

\* an abort the hardware raises on its own, anywhere inside a transaction
HwAbort(t, a) ==
    /\ InTx(th[t])
    /\ th[t].hw < MaxHwAborts
    /\ th' = [th EXCEPT ![t] = [Aborted(@, a, "hw") EXCEPT !.hw = @ + 1]]
    /\ UNCHANGED <<cfg, slock, rwlock, wflag, g_i>>

\* libtle_spinlock_lock_uncontended(&mtx->wflag); st->status = LOCKED_UNIQUE;
WfSet(t) ==
    /\ th[t].pc = "wf_set"
    /\ wflag' = SpinBusy
    /\ LockWordStep(t, Locked(th[t], FallbackStatus("x")), "wflag")
    /\ UNCHANGED <<cfg, slock, rwlock, g_i>>

-----------------------------------------------------------------------------
(* The critical section of the examples: safe_increment reads the counter  *)
(* and writes it back incremented; safe_read only reads it.                *)

\* the read of the counter
CsRead(t) ==
    LET r == th[t]
        v == IF InTx(r) /\ r.wbuf # NoVal THEN r.wbuf ELSE g_i
    IN  /\ r.pc = "cs"
        /\ Step(t, [r EXCEPT !.pc = IF r.op = "x" THEN "cs_w" ELSE "cs_x",
                             !.tmp = v,
                             !.rs = IF InTx(r) THEN @ \cup {"g_i"} ELSE @],
                Writers(t), "data")
        /\ UNCHANGED <<cfg, slock, rwlock, wflag, g_i>>

\* the write of the counter: to memory, or to the write buffer in a transaction
CsWrite(t) ==
    LET r == th[t]
    IN  /\ r.pc = "cs_w"
        /\ IF InTx(r)
           THEN /\ g_i' = g_i
                /\ Step(t, [r EXCEPT !.pc = "cs_x", !.wbuf = r.tmp + 1,
                                     !.pend = @ + 1, !.rs = @ \cup {"g_i"}],
                        Readers(t, "g_i"), "data")
           ELSE /\ g_i' = r.tmp + 1
                /\ Step(t, [r EXCEPT !.pc = "cs_x", !.incs = @ + 1],
                        Readers(t, "g_i"), "data")
        /\ UNCHANGED <<cfg, slock, rwlock, wflag>>

\* a critical section that leaves the counter alone (the benchmark's dummy_work)
CsWork(t) ==
    /\ th[t].pc = "cs"
    /\ th' = [th EXCEPT ![t].pc = "cs_x"]
    /\ UNCHANGED <<cfg, slock, rwlock, wflag, g_i>>

\* a data conflict between two transactions resolved against the one that is
\* about to access the counter
TxConflict(t) ==
    LET r == th[t]
    IN  /\ InTx(r)
        /\ \/ r.pc = "cs" /\ Writers(t) # {}
           \/ r.pc = "cs_w" /\ Readers(t, "g_i") # {}
        /\ th' = [th EXCEPT ![t] = Aborted(r, ConflictStatus, "data")]
        /\ UNCHANGED <<cfg, slock, rwlock, wflag, g_i>>

-----------------------------------------------------------------------------
(* The unlock operations.                                                  *)

\* return from an unlock call: st->status = LIBTLE_MUTEX_STATUS_UNLOCKED
UnlockedUnknown(r) ==
    [SetStatus(r, UNKNOWN) EXCEPT !.pc = "idle", !.ops = @ + 1, !.tmp = 0,
                                  !.nr = 0, !.begins = 0, !.scope = "none"]
UnlockedStale(r) ==
    [r EXCEPT !.pc = "idle", !.ops = @ + 1, !.tmp = 0, !.nr = 0, !.begins = 0,
              !.scope = "none"]
Unlocked(r) ==
    [SetStatus(r, UNLOCKED) EXCEPT !.pc = "idle", !.ops = @ + 1, !.tmp = 0,
                                   !.nr = 0, !.begins = 0, !.scope = "none"]

\* if (p) { libtle_mutex_profile_update_unlock(p); }
ProfiledUnlock(r) ==
    [r EXCEPT !.prof = IF HasProfile THEN UpdateUnlock(@) ELSE @]

\* _xend(): the thread after it.  Only the outermost _xend commits.
XEnd(r) ==
    IF r.depth = 1
    THEN [r EXCEPT !.depth = 0, !.rs = {}, !.wbuf = NoVal, !.outer = FALSE,
                   !.saved = UNKNOWN, !.inner = 0,
                   !.incs = @ + r.pend, !.pend = 0,
                   !.commits = IF r.outer /\ r.inner = 0 THEN @ ELSE @ + 1]
    ELSE [r EXCEPT !.depth = @ - 1]

\* _xend(): the counter in memory after it
XEndMemory(r) == IF r.depth = 1 /\ r.wbuf # NoVal THEN r.wbuf ELSE g_i

\* if (p && !_xtest()) { libtle_htm_mutex_profile_update_commit(p); }
CountsCommitAlways(e) == HasProfile
CountsCommit(e) == HasProfile /\ ~InTx(e)

\* case LIBTLE_MUTEX_STATUS_ELIDED of the HTM unlocks
ElidedUnlock(r) ==
    LET e == XEnd(r)
    IN  Unlocked([e EXCEPT !.prof = IF CountsCommit(e) THEN UpdateCommit(@) ELSE @,
                           !.nested = IF InTx(e) THEN @ + 1 ELSE @,
                           !.inner = IF InTx(e) THEN @ + 1 ELSE @])

\* libtle_null_mutex_unlock, libtle_null_shared_mutex_unlock / _unlock_shared
\* (libtle_null_mutex_profile_update_unlock does nothing)
NullUnlock(t) ==
    /\ kind \in {"null", "nullsh"}
    /\ th[t].pc = "cs_x"
    /\ UnlockAssert(th[t].status, FallbackStatus(th[t].op))
    /\ th' = [th EXCEPT ![t] = Unlocked(@)]
    /\ UNCHANGED <<cfg, slock, rwlock, wflag, g_i>>

\* libtle_spin_mutex_unlock
SpinMutexUnlockIncrements(t) ==
    /\ kind = "spin"
    /\ th[t].pc = "cs_x"
    /\ UnlockAssert(th[t].status, LOCKED_UNIQUE)
    /\ slock' = slock + 1
    /\ LockWordStep(t, ProfiledUnlock(Unlocked(th[t])), "slock")
    /\ UNCHANGED <<cfg, rwlock, wflag, g_i>>
SpinMutexUnlock(t) ==
    /\ kind = "spin"
    /\ th[t].pc = "cs_x"
    /\ UnlockAssert(th[t].status, LOCKED_UNIQUE)
    /\ slock' = SpinFree
    /\ LockWordStep(t, ProfiledUnlock(Unlocked(th[t])), "slock")
    /\ UNCHANGED <<cfg, rwlock, wflag, g_i>>

\* libtle_spin_shared_mutex_unlock
SpinSharedMutexUnlock(t) ==
    /\ kind = "rw"
    /\ th[t].pc = "cs_x"
    /\ th[t].op = "x"
    /\ UnlockAssert(th[t].status, LOCKED_UNIQUE)
    /\ rwlock' = FetchAndNot3(rwlock)
    /\ LockWordStep(t, ProfiledUnlock(Unlocked(th[t])), "rwlock")
    /\ UNCHANGED <<cfg, slock, wflag, g_i>>

\* libtle_spin_shared_mutex_unlock_shared
SpinSharedMutexUnlockShared(t) ==
    /\ kind = "rw"
    /\ th[t].pc = "cs_x"
    /\ th[t].op = "s"
    /\ UnlockAssert(th[t].status, LOCKED_SHARED)
    /\ rwlock' = FetchSub4(rwlock)
    /\ LockWordStep(t, ProfiledUnlock(Unlocked(th[t])), "rwlock")
    /\ UNCHANGED <<cfg, slock, wflag, g_i>>

\* the case the -DNDEBUG libtle_htm_spin_mutex_unlock takes:
\* if (libtle_spinlock_is_locked(&mtx->state)) { unlock } else { _xend }
ReleaseBranch == IF SpinIsLocked(slock) THEN LOCKED_UNIQUE ELSE ELIDED

\* the branch libtle_htm_spin_mutex_unlock takes: switch (st->status), or with
\* -DNDEBUG if (libtle_spinlock_is_locked(&mtx->state)) .. else ..
HtmUnlockBranch(r) ==
    IF cfg.ndebug THEN ReleaseBranch ELSE r.status

\* libtle_htm_spin_mutex_unlock
HtmUnlock(t) ==
    LET r == th[t]
    IN  /\ kind = "htm"
        /\ r.pc = "cs_x"
        /\ \/ /\ HtmUnlockBranch(r) = ELIDED
              /\ th' = [th EXCEPT ![t] = ElidedUnlock(r)]
              /\ g_i' = XEndMemory(r)
              /\ slock' = slock
           \/ /\ HtmUnlockBranch(r) = LOCKED_UNIQUE
              /\ slock' = SpinFree
              /\ LockWordStep(t, ProfiledUnlock(Unlocked(r)), "slock")
              /\ g_i' = g_i
        /\ UNCHANGED <<cfg, rwlock, wflag>>

\* libtle_htm_spin_shared_mutex_unlock: the ELIDED case, and of the
\* LOCKED_UNIQUE case libtle_spinlock_unlock(&mtx->wflag)
HsmUnlock(t) ==
    LET r == th[t]
    IN  /\ kind = "hsm"
        /\ r.pc = "cs_x"
        /\ r.op = "x"
        /\ \/ /\ r.status = ELIDED
              /\ th' = [th EXCEPT ![t] = ElidedUnlock(r)]
              /\ g_i' = XEndMemory(r)
              /\ wflag' = wflag
           \/ /\ r.status = LOCKED_UNIQUE
              /\ wflag' = SpinFree
              /\ LockWordStep(t, [r EXCEPT !.pc = "wu_state"], "wflag")
              /\ g_i' = g_i
        /\ UNCHANGED <<cfg, slock, rwlock>>

\* the rest of the LOCKED_UNIQUE case: libtle_rwlock_write_unlock(&mtx->state),
\* the profile update, st->status = UNLOCKED
HsmWriteUnlock(t) ==
    /\ th[t].pc = "wu_state"
    /\ rwlock' = FetchAndNot3(rwlock)
    /\ LockWordStep(t, ProfiledUnlock(Unlocked(th[t])), "rwlock")
    /\ UNCHANGED <<cfg, slock, wflag, g_i>>

\* libtle_htm_spin_shared_mutex_unlock_shared
HsmUnlockShared(t) ==
    LET r == th[t]
    IN  /\ kind = "hsm"
        /\ r.pc = "cs_x"
        /\ r.op = "s"
        /\ \/ /\ r.status = ELIDED
              /\ th' = [th EXCEPT ![t] = ElidedUnlock(r)]
              /\ g_i' = XEndMemory(r)
              /\ rwlock' = rwlock
           \/ /\ r.status = LOCKED_SHARED
              /\ rwlock' = FetchSub4(rwlock)
              /\ LockWordStep(t, ProfiledUnlock(Unlocked(r)), "rwlock")
              /\ g_i' = g_i
        /\ UNCHANGED <<cfg, slock, wflag>>

-----------------------------------------------------------------------------
(* A caller that wraps its lock/unlock pairs in a transaction of its own   *)
(* (as when the pair runs inside the elided section of another mutex).     *)

\* the caller's _xbegin() returning _XBEGIN_STARTED
OuterBegin(t) ==
    LET r == th[t]
    IN  /\ cfg.nest
        /\ r.pc = "idle"
        /\ ~InTx(r)
        /\ r.ops < MaxOps
        /\ th' = [th EXCEPT ![t].depth = 1, ![t].outer = TRUE, ![t].saved = r.status]
        /\ UNCHANGED <<cfg, slock, rwlock, wflag, g_i>>

\* the caller's _xend()
OuterEnd(t) ==
    LET r == th[t]
    IN  /\ r.pc = "idle"
        /\ r.outer
        /\ th' = [th EXCEPT ![t] = XEnd(r)]
        /\ g_i' = XEndMemory(r)
        /\ UNCHANGED <<cfg, slock, rwlock, wflag>>

-----------------------------------------------------------------------------
(* Specifications.                                                         *)

\* a build with assertions (the Makefile's DEBUG=1)
Build(a, e, k, r, n) ==
    [arch |-> a, eaxIsTmp |-> e, kind |-> k, R |-> r, prof |-> TRUE, nest |-> n,
     ndebug |-> FALSE, sxr |-> "value"]

\* the same build with -DNDEBUG=1 (the Makefile's DEBUG=0)
Release(b) == [b EXCEPT !.ndebug = TRUE]

InitMemory(n) ==
    /\ slock = SpinFree
    /\ rwlock = RWZero
    /\ wflag = SpinFree
    /\ g_i = 0
    /\ th = [t \in 1..n |-> InitThread]

\* threads that only call libtle_spin_mutex_lock / _unlock
InitSpin ==
    /\ cfg \in {Build(a, TRUE, "spin", 0, FALSE) : a \in {"x86", "aarch64", "generic"}}
    /\ InitMemory(NSpin)

NextSpin ==
    \/ \E t \in Threads : SpinMutexLock(t)
    \/ \E t \in Threads : SpinDec(t)
    \/ \E t \in Threads : SpinSpin(t)
    \/ \E t \in Threads : SpinTas(t)
    \/ \E t \in Threads : CsRead(t)
    \/ \E t \in Threads : CsWrite(t)
    \/ \E t \in Threads : SpinMutexUnlock(t)

SpecSpin == InitSpin /\ [][NextSpin]_vars

\* the same build on a core with outcome o of the unpredictable stlxr
OnCore(b, o) == [b EXCEPT !.sxr = o]

\* the builds of rwlock.h: the portable one, AArch64 on the three kinds of
\* core, and x86-64 with tmp in EAX or in another register
RWBuilds(k, r, n) ==
    {Build("generic", TRUE, k, r, n),
     Build("x86", TRUE, k, r, n), Build("x86", FALSE, k, r, n)}
    \cup {OnCore(Build("aarch64", TRUE, k, r, n), o) : o \in {"value", "unknown", "nop"}}

\* the build's write_lock or read_lock does something other than its C branch
Faulty == EaxIsNotTmp \/ cfg.sxr # "value"

\* threads that call the libtle_spin_shared_mutex operations
InitRW ==
    /\ cfg \in RWBuilds("rw", 0, FALSE)
    /\ InitMemory(IF Faulty THEN NThreads ELSE NRW)

NextRW ==
    \/ \E t \in Threads : \E o \in {"x", "s"} : SpinSharedMutexLock(t, o)
    \/ \E t \in Threads : WlLoad(t)
    \/ \E t \in Threads : WlCas(t)
    \/ \E t \in Threads : WlOr(t)
    \/ \E t \in Threads : WlLlsc(t)
    \/ \E t \in Threads : RlLoad(t)
    \/ \E t \in Threads : RlAdd(t)
    \/ \E t \in Threads : RlUndo(t)
    \/ \E t \in Threads : RlLlsc(t)
    \/ \E t \in Threads : CsRead(t)
    \/ \E t \in Threads : CsWrite(t)
    \/ \E t \in Threads : SpinSharedMutexUnlock(t)
    \/ \E t \in Threads : SpinSharedMutexUnlockShared(t)

SpecRW == InitRW /\ [][NextRW]_vars

\* The builds of the six mutex types: the two null mutexes; the spin_mutex and
\* the spin_shared_mutex on every build; the htm_spin_mutex on x86-64 (RTM)
\* and AArch64 (TME) for every retry limit, called directly or inside a
\* caller's transaction; the htm_spin_shared_mutex on its three builds; and
\* with -DNDEBUG=1 the null_mutex, the spin_mutex and the htm_spin_mutex.
HandleBuilds ==
    {Build("x86", TRUE, k, 0, FALSE) : k \in {"null", "nullsh"}}
    \cup {Release(Build("x86", TRUE, k, 0, FALSE)) : k \in {"null", "spin"}}
    \cup {Release(Build(a, TRUE, "htm", 1, n)) : a \in {"x86", "aarch64"}, n \in BOOLEAN}
    \cup {Build(a, TRUE, "spin", 0, FALSE) : a \in {"x86", "aarch64", "generic"}}
    \cup RWBuilds("rw", 0, FALSE)
    \cup {Build(a, TRUE, "htm", r, n) :
            a \in {"x86", "aarch64"}, r \in 0..MaxRetry, n \in BOOLEAN}
    \cup {c \in {[b EXCEPT !.R = r] : b \in RWBuilds("hsm", 0, FALSE), r \in 1..MaxRetry} :
            c.arch # "generic" /\ (c.sxr = "value" \/ c.R = 1)}

\* threads that lock and unlock one such mutex around dummy work
InitHandles ==
    /\ cfg \in HandleBuilds
    /\ InitMemory(NThreads)

NextHandles ==
    \/ \E t \in Threads : \E o \in {"x", "s"} : NullLock(t, o)
    \/ \E t \in Threads : SpinMutexLock(t)
    \/ \E t \in Threads : \E o \in {"x", "s"} : SpinSharedMutexLock(t, o)
    \/ \E t \in Threads : \E o \in {"x", "s"} : HtmLock(t, o)
    \/ \E t \in Threads : HlWait(t)
    \/ \E t \in Threads : HlBegin(t)
    \/ \E t \in Threads : HlCheck(t)
    \/ \E t \in Threads : \E a \in HwAborts : HwAbort(t, a)
    \/ \E t \in Threads : SpinDec(t)
    \/ \E t \in Threads : SpinSpin(t)
    \/ \E t \in Threads : SpinTas(t)
    \/ \E t \in Threads : WlLoad(t)
    \/ \E t \in Threads : WlCas(t)
    \/ \E t \in Threads : WlOr(t)
    \/ \E t \in Threads : WlLlsc(t)
    \/ \E t \in Threads : WfSet(t)
    \/ \E t \in Threads : RlLoad(t)
    \/ \E t \in Threads : RlAdd(t)
    \/ \E t \in Threads : RlUndo(t)
    \/ \E t \in Threads : RlLlsc(t)
    \/ \E t \in Threads : CsWork(t)
    \/ \E t \in Threads : NullUnlock(t)
    \/ \E t \in Threads : SpinMutexUnlock(t)
    \/ \E t \in Threads : SpinSharedMutexUnlock(t)
    \/ \E t \in Threads : SpinSharedMutexUnlockShared(t)
    \/ \E t \in Threads : HtmUnlock(t)
    \/ \E t \in Threads : HsmUnlock(t)
    \/ \E t \in Threads : HsmWriteUnlock(t)
    \/ \E t \in Threads : HsmUnlockShared(t)
    \/ \E t \in Threads : OuterBegin(t)
    \/ \E t \in Threads : OuterEnd(t)

SpecHandles == InitHandles /\ [][NextHandles]_vars

\* The builds of the examples: one counter behind a spin_mutex, a
\* spin_shared_mutex, an htm_spin_mutex or an htm_spin_shared_mutex.
CounterBuilds ==
    {Build(a, TRUE, "spin", 0, FALSE) : a \in {"x86", "aarch64", "generic"}}
    \cup RWBuilds("rw", 0, FALSE)
    \cup {Build(a, TRUE, "htm", 1, FALSE) : a \in {"x86", "aarch64"}}
    \cup {Release(Build(a, TRUE, "htm", 1, FALSE)) : a \in {"x86", "aarch64"}}
    \cup {b \in RWBuilds("hsm", 1, FALSE) : b.arch # "generic"}

\* threads that run safe_increment and safe_read
InitCounter ==
    /\ cfg \in CounterBuilds
    /\ InitMemory(NThreads)

NextCounter ==
    \/ \E t \in Threads : SpinMutexLock(t)
    \/ \E t \in Threads : \E o \in {"x", "s"} : SpinSharedMutexLock(t, o)
    \/ \E t \in Threads : \E o \in {"x", "s"} : HtmLock(t, o)
    \/ \E t \in Threads : HlWait(t)
    \/ \E t \in Threads : HlBegin(t)
    \/ \E t \in Threads : HlCheck(t)
    \/ \E t \in Threads : \E a \in HwAborts : HwAbort(t, a)
    \/ \E t \in Threads : TxConflict(t)
    \/ \E t \in Threads : SpinDec(t)
    \/ \E t \in Threads : SpinSpin(t)
    \/ \E t \in Threads : SpinTas(t)
    \/ \E t \in Threads : WlLoad(t)
    \/ \E t \in Threads : WlCas(t)
    \/ \E t \in Threads : WlOr(t)
    \/ \E t \in Threads : WlLlsc(t)
    \/ \E t \in Threads : WfSet(t)
    \/ \E t \in Threads : RlLoad(t)
    \/ \E t \in Threads : RlAdd(t)
    \/ \E t \in Threads : RlUndo(t)
    \/ \E t \in Threads : RlLlsc(t)
    \/ \E t \in Threads : CsRead(t)
    \/ \E t \in Threads : CsWrite(t)
    \/ \E t \in Threads : SpinMutexUnlock(t)
    \/ \E t \in Threads : SpinSharedMutexUnlock(t)
    \/ \E t \in Threads : SpinSharedMutexUnlockShared(t)
    \/ \E t \in Threads : HtmUnlock(t)
    \/ \E t \in Threads : HsmUnlock(t)
    \/ \E t \in Threads : HsmWriteUnlock(t)
    \/ \E t \in Threads : HsmUnlockShared(t)

SpecCounter == InitCounter /\ [][NextCounter]_vars

-----------------------------------------------------------------------------
(* Properties.                                                             *)

\* the threads between the return of a lock call and the matching unlock call
Holders == {t \in Threads : InCS(t)}

\* C1: on the test-and-set spinlock / spin_mutex at most one thread is between
\* the return of its lock and its own unlock, on x86-64 (decrement-based word),
\* on AArch64 and in the portable exchange-based build.
C1_SpinMutualExclusion == Cardinality(Holders) <= 1

\* C1 witness: the x86 word driven to -2 by two waiters while a third thread
\* holds the lock.
C1_Witness ==
    /\ arch = "x86"
    /\ slock = -2
    /\ Cardinality(Holders) = 1
    /\ Cardinality({t \in Threads : th[t].pc = "sl_spin"}) = 2

\* a writer between lock and unlock is the only thread between lock and unlock
WriterAlone == \A t \in Holders : th[t].op = "x" => Holders = {t}

\* C2: on the reader/writer spinlock / spin_shared_mutex a thread between the
\* return of write_lock and its write_unlock coexists with no reader between
\* read_lock and read_unlock and with no other such writer.
C2_RWExclusion == kind = "rw" => WriterAlone

-----------------------------------------------------------------------------
(* The HTM mutexes.                                                        *)

HTM == kind \in {"htm", "hsm"}

\* threads between the return of a fallback lock (status st) and the unlock
FallbackHolders(st) == {t \in Threads : InCS(t) /\ th[t].status = st}

\* step in which the transaction of thread u commits an elided critical section
Commits(u) == th'[u].commits # th[u].commits

\* C3: on the htm_spin_mutex, while a thread holds the fallback spinlock (from
\* its acquire to its release) no elided transaction on the mutex commits,
\* also not one that read the lock word as free before the lock was taken.
C3_NoCommitWhileFallbackHeld ==
    [][(kind = "htm" /\ (SpinIsLocked(slock) \/ FallbackHolders(LOCKED_UNIQUE) # {}))
        => \A u \in Threads : ~Commits(u)]_vars

\* C3 witness: a thread holds the fallback spinlock and the other thread, whose
\* transaction had started and had read the word as free, was aborted by the
\* acquire's write and is back in its lock call.
C3_Witness ==
    /\ kind = "htm"
    /\ ~cfg.nest
    /\ \E t, u \in Threads :
        /\ t # u
        /\ InCS(t) /\ th[t].status = LOCKED_UNIQUE
        /\ th[u].cause = "lockword"
        /\ th[u].pc = "hl_wait"

\* no two handles are in a fallback status at once unless both are shared
NoTwoFallbackHolders ==
    \A t, u \in Threads :
        (t # u /\ th[t].status = LOCKED_UNIQUE)
            => th[u].status \notin {LOCKED_UNIQUE, LOCKED_SHARED}

\* C4: on the htm_spin_shared_mutex (a) a handle in LOCKED_UNIQUE never
\* coexists with another handle in LOCKED_UNIQUE or LOCKED_SHARED (parts (b)
\* and (c), on commits, rest on the same exclusion).
C4_HsmExclusion == kind = "hsm" => NoTwoFallbackHolders

RECURSIVE SumOver(_, _)
\* the sum of f[t] over the threads of S
SumOver(f, S) ==
    IF S = {} THEN 0
    ELSE LET t == CHOOSE x \in S : TRUE IN f[t] + SumOver(f, S \ {t})

\* every thread has done all its operations and is outside lock/unlock
AllJoined ==
    \A t \in Threads : th[t].pc = "idle" /\ ~InTx(th[t]) /\ th[t].ops = MaxOps

\* the increments whose critical section completed
Increments == SumOver([t \in Threads |-> th[t].incs], Threads)

\* C5: when all threads have finished, the counter equals the number of
\* lock(); counter := counter + 1; unlock() sections executed (N*K when every
\* operation is an increment), and a read under lock_shared made after the
\* other threads have finished returns that number.
C5_NoLostUpdates ==
    /\ AllJoined => g_i = Increments
    /\ \A t \in Threads :
        ( /\ th[t].pc = "cs_x" /\ th[t].op = "s"
          /\ \A u \in Threads \ {t} : th[u].pc = "idle" /\ th[u].ops = MaxOps )
        => th[t].tmp = Increments

\* thread t holds the mutex exclusively: LOCKED_UNIQUE, or ELIDED inside a
\* live transaction entered by the exclusive lock()
HoldsExclusively(t) ==
    /\ InCS(t)
    /\ th[t].op = "x"
    /\ \/ th[t].status = LOCKED_UNIQUE
       \/ th[t].status = ELIDED /\ InTx(th[t])

WordFree(l) ==
    IF l = "rwlock" THEN rwlock = RWZero
    ELSE IF l = "slock" THEN slock = SpinFree
    ELSE wflag = SpinFree

-----------------------------------------------------------------------------
(* Handles and profiles.                                                   *)

\* thread t is inside an unlock call that has not returned
InUnlock(t) == th[t].pc \in {"cs_x", "wu_state"}

\* step in which thread t returns from an unlock call
UnlockReturns(t) == InUnlock(t) /\ th'[t].pc = "idle" /\ th'[t].ops = th[t].ops + 1

\* the statuses of a handle between the return of lock (op "x") or
\* lock_shared (op "s") and the matching unlock
HeldStatusOK(r) ==
    IF HTM
    THEN \/ r.status = ELIDED /\ InTx(r)
         \/ r.status = (IF r.op = "x" THEN LOCKED_UNIQUE ELSE LOCKED_SHARED) /\ ~InTx(r)
    ELSE r.status = (IF r.op = "x" THEN LOCKED_UNIQUE ELSE LOCKED_SHARED)

\* C7: on every mutex type whose handle has a status, a handle outside
\* lock/unlock, and one inside a lock call that has not returned, is UNKNOWN
\* or UNLOCKED (so the assertion at the head of lock always passes); between
\* the return of lock and the matching unlock it is LOCKED_UNIQUE /
\* LOCKED_SHARED (fallback or non-HTM path) or ELIDED (transactional path),
\* never UNLOCKED; and unlock leaves UNLOCKED.
C7_HandleStateMachine ==
    /\ [](\A t \in Threads :
            IF StatusTracked /\ (InCS(t) \/ th[t].pc = "wu_state")
            THEN HeldStatusOK(th[t])
            ELSE th[t].status \in {UNKNOWN, UNLOCKED})
    /\ [][\A t \in Threads :
            (StatusTracked /\ UnlockReturns(t)) => th'[t].status = UNLOCKED]_vars

\* C7 witness: on its second operation a handle of an htm_spin_mutex was
\* ELIDED, the transaction aborted, and lock returned with LOCKED_UNIQUE.
C7_Witness ==
    /\ kind = "htm"
    /\ \E t \in Threads :
        /\ InCS(t)
        /\ th[t].status = LOCKED_UNIQUE
        /\ th[t].begins = 2
        /\ th[t].ops = 1

\* the fallback lock of thread t's operation is released by the step
Released(t) ==
    IF kind = "htm" \/ kind = "spin" THEN slock' = SpinFree
    ELSE IF th[t].op = "x" THEN rwlock' = FetchAndNot3(rwlock)
    ELSE rwlock' = FetchSub4(rwlock)

\* C8: locks_elided changes only in an unlock at ELIDED whose _xend leaves the
\* thread outside any transaction, locks_acquired only in an unlock at
\* LOCKED_UNIQUE / LOCKED_SHARED that also releases the fallback lock; each
\* such step adds exactly 1 to one of the two and leaves the other alone, and
\* no other step (lock, abort, nested unlock) changes either.
C8_ElisionBookkeeping ==
    [][\A t \in Threads :
        LET p == th[t].prof
            q == th'[t].prof
        IN  /\ q.locks_elided # p.locks_elided =>
                /\ q.locks_elided = p.locks_elided + 1
                /\ q.locks_acquired = p.locks_acquired
                /\ UnlockReturns(t)
                /\ StatusTracked => th[t].status = ELIDED
                /\ th[t].depth = 1 /\ ~InTx(th'[t])
                /\ Commits(t)
            /\ q.locks_acquired # p.locks_acquired =>
                /\ q.locks_acquired = p.locks_acquired + 1
                /\ q.locks_elided = p.locks_elided
                /\ UnlockReturns(t)
                /\ StatusTracked => th[t].status \in {LOCKED_UNIQUE, LOCKED_SHARED}
                /\ ~InTx(th[t])
                /\ Released(t)
            /\ (UnlockReturns(t) /\ HTM /\ ~InTx(th'[t])) =>
                  q.locks_elided + q.locks_acquired
                    = p.locks_elided + p.locks_acquired + 1]_vars

\* C8 witness: a handle has completed two operations, the first inside the
\* caller's transaction (counted by neither counter), the second as an
\* outermost elided section (locks_elided = 1).
C8_Witness ==
    \E t \in Threads :
        /\ th[t].pc = "idle" /\ ~InTx(th[t])
        /\ th[t].ops = 2 /\ th[t].nested = 1
        /\ th[t].prof.locks_elided = 1
        /\ th[t].prof.locks_acquired = 0

\* the field-wise sum of the threads' profiles
RECURSIVE ProfileSum(_)
ProfileSum(S) ==
    IF S = {} THEN ProfileInit
    ELSE LET t == CHOOSE x \in S : TRUE IN Accumulate(ProfileSum(S \ {t}), th[t].prof)

\* the consistency predicate of the profile type the mutex kind uses
Consistent(p, sum) ==
    IF HTM THEN HtmConsistent(p, sum)
    ELSE IF kind \in {"spin", "rw"} THEN PlainConsistent(p, sum)
    ELSE TRUE

\* C9 as stated: after join every thread's profile is consistent with the
\* number of lock operations the thread completed, and the sum of the
\* profiles with the total.
C9_Original ==
    AllJoined =>
        /\ \A t \in Threads : Consistent(th[t].prof, th[t].ops)
        /\ Consistent(ProfileSum(Threads),
                      SumOver([t \in Threads |-> th[t].ops], Threads))

\* the operations thread t completed outside any transaction of its caller
Counted(t) == th[t].ops - th[t].nested

\* C9 amended: after join every thread's profile, and the field-wise sum of
\* the profiles, satisfies the consistency predicate of its type against the
\* number of lock operations completed outside any enclosing transaction; an
\* operation whose unlock ran inside a caller's transaction is counted by
\* neither locks_acquired nor locks_elided.
C9_Amended ==
    AllJoined =>
        /\ \A t \in Threads : Consistent(th[t].prof, Counted(t))
        /\ Consistent(ProfileSum(Threads),
                      SumOver([t \in Threads |-> Counted(t)], Threads))

\* C9 witness: all threads have joined, one handle has an operation that ran
\* inside its caller's transaction and one that was counted as acquired.
C9_Witness ==
    /\ AllJoined
    /\ HTM
    /\ \E t \in Threads :
        /\ th[t].nested = 1
        /\ th[t].prof.locks_acquired = 1

\* C10: with a retry limit R >= 1, one lock call begins at most R
\* transactions (re-executions after an abort in the critical section
\* included); once num_retries reaches R the call is on its fallback path and
\* returns LOCKED_UNIQUE / LOCKED_SHARED; with R = 1, a handle that has seen
\* an abort has locks_acquired >= 1 once the matching unlock has returned.
C10_BoundedRetry ==
    (HTM /\ R >= 1) =>
        \A t \in Threads :
            /\ th[t].begins <= R
            /\ th[t].nr >= R =>
                /\ th[t].pc \notin {"hl_wait", "hl_begin", "hl_check"}
                /\ ~InTx(th[t])
                /\ (StatusTracked /\ InCS(t))
                      => th[t].status \in {LOCKED_UNIQUE, LOCKED_SHARED}
            /\ (R = 1 /\ th[t].pc = "idle" /\ Aborts(th[t].prof) >= 1)
                  => th[t].prof.locks_acquired >= 1

\* C10 witness: with R = 2 a lock call has begun two transactions, both
\* aborted, and has returned LOCKED_UNIQUE from the fallback.
C10_Witness ==
    /\ HTM
    /\ R = 2
    /\ \E t \in Threads :
        /\ th[t].begins = 2 /\ th[t].nr = 2
        /\ InCS(t) /\ th[t].status = LOCKED_UNIQUE

-----------------------------------------------------------------------------
(* Callers that break the contract of the handle, on builds with           *)
(* assertions: a lock call on a handle that is held, an unlock call on a    *)
(* handle that is not held, an unlock call of the other kind.               *)

\* the process after abort(): no thread runs any more, and nothing of its
\* memory is left but what the failed assertion reported
Halted == [InitThread EXCEPT !.pc = "killed"]

\* a failing assert() outside a transaction: __assert_fail prints and calls
\* abort(), which ends the process
AssertFails(t, m) ==
    /\ th' = [u \in Threads |->
                IF u = t THEN [Halted EXCEPT !.pc = "assert_failed", !.misuse = m,
                                             !.status = th[t].status, !.op = th[t].op]
                ELSE Halted]
    /\ slock' = SpinFree
    /\ rwlock' = RWZero
    /\ wflag' = SpinFree
    /\ g_i' = 0

\* the thread after the head of a lock call whose assertion passed
CallLock(r, o) ==
    IF kind \in {"null", "nullsh"} THEN Locked(Entered(r, o), FallbackStatus(o))
    ELSE IF kind = "spin" THEN EnterSpinLock(Entered(r, o))
    ELSE IF kind = "rw" THEN (IF o = "x" THEN EnterWriteLock(Entered(r, o))
                                         ELSE EnterReadLock(Entered(r, o)))
    ELSE [Entered(r, o) EXCEPT !.pc = "hl_wait"]

\* the mutex type has the shared operations
HasShared == kind \in {"nullsh", "rw", "hsm"}

\* lock() or lock_shared() by a caller that holds the handle.  The assertion at
\* the head of the lock call fails; inside an elided critical section
\* __assert_fail runs in the transaction, which its system call aborts, and
\* control is back in the first lock call.
DoubleLock(t, o) ==
    LET r == th[t]
    IN  /\ ~cfg.ndebug
        /\ InCS(t)
        /\ r.misuse = "none"
        /\ o = "x" \/ HasShared
        /\ \/ /\ LockAssert(r.status)
              /\ th' = [th EXCEPT ![t] = [CallLock(r, o) EXCEPT !.misuse = "double"]]
              /\ UNCHANGED <<slock, rwlock, wflag, g_i>>
           \/ /\ ~LockAssert(r.status)
              /\ InTx(r)
              /\ \E a \in HwAborts : th' = [th EXCEPT ![t] = Aborted(r, a, "assert")]
              /\ UNCHANGED <<slock, rwlock, wflag, g_i>>
           \/ /\ ~LockAssert(r.status)
              /\ ~InTx(r)
              /\ AssertFails(t, "double")
        /\ UNCHANGED cfg

\* what the head of unlock() / unlock_shared() lets pass: the assert of the
\* null and spin mutexes, the switch on st->status of the HTM mutexes
StatusAcceptedAny(o, st) == TRUE
StatusAccepted(o, st) ==
    IF HTM THEN st \in {ELIDED, FallbackStatus(o)}
    ELSE UnlockAssert(st, FallbackStatus(o))

\* unlock() or unlock_shared() by a caller that does not hold the handle
\* (m = "notheld") or holds it by the other kind of lock call (m = "wrongkind")
ContractUnlock(t, o, m) ==
    LET r == th[t]
    IN  /\ ~cfg.ndebug
        /\ r.misuse = "none"
        /\ o = "x" \/ HasShared
        /\ \/ m = "notheld" /\ r.pc = "idle" /\ ~InTx(r)
           \/ m = "wrongkind" /\ r.pc = "cs_x" /\ o # r.op
        /\ \/ /\ ~StatusAccepted(o, r.status)
              /\ AssertFails(t, m)
           \/ /\ StatusAccepted(o, r.status)
              /\ r.status = ELIDED
              /\ th' = [th EXCEPT ![t] = [ElidedUnlock(r) EXCEPT !.misuse = m]]
              /\ g_i' = XEndMemory(r)
              /\ UNCHANGED <<slock, rwlock, wflag>>
        /\ UNCHANGED cfg

\* the six mutex types built with assertions
ContractBuilds ==
    {Build("x86", TRUE, k, 0, FALSE) : k \in {"null", "nullsh"}}
    \cup {Build(a, TRUE, k, 1, FALSE) :
            a \in {"x86", "aarch64"}, k \in {"spin", "rw", "htm", "hsm"}}

InitContract ==
    /\ cfg \in ContractBuilds
    /\ InitMemory(NThreads)

\* each caller makes one lock/unlock pair, in or around which it may break
\* the contract
Fresh(t) == th[t].ops = 0

NextContract ==
    \/ \E t \in Threads : \E o \in {"x", "s"} : (Fresh(t) /\ NullLock(t, o))
    \/ \E t \in Threads : (Fresh(t) /\ SpinMutexLock(t))
    \/ \E t \in Threads : \E o \in {"x", "s"} : (Fresh(t) /\ SpinSharedMutexLock(t, o))
    \/ \E t \in Threads : \E o \in {"x", "s"} : (Fresh(t) /\ HtmLock(t, o))
    \/ \E t \in Threads : HlWait(t)
    \/ \E t \in Threads : HlBegin(t)
    \/ \E t \in Threads : HlCheck(t)
    \/ \E t \in Threads : \E a \in HwAborts : HwAbort(t, a)
    \/ \E t \in Threads : SpinDec(t)
    \/ \E t \in Threads : SpinSpin(t)
    \/ \E t \in Threads : SpinTas(t)
    \/ \E t \in Threads : WlLoad(t)
    \/ \E t \in Threads : WlCas(t)
    \/ \E t \in Threads : WlOr(t)
    \/ \E t \in Threads : WlLlsc(t)
    \/ \E t \in Threads : WfSet(t)
    \/ \E t \in Threads : RlLoad(t)
    \/ \E t \in Threads : RlAdd(t)
    \/ \E t \in Threads : RlUndo(t)
    \/ \E t \in Threads : RlLlsc(t)
    \/ \E t \in Threads : CsWork(t)
    \/ \E t \in Threads : NullUnlock(t)
    \/ \E t \in Threads : SpinMutexUnlock(t)
    \/ \E t \in Threads : SpinSharedMutexUnlock(t)
    \/ \E t \in Threads : SpinSharedMutexUnlockShared(t)
    \/ \E t \in Threads : HtmUnlock(t)
    \/ \E t \in Threads : HsmUnlock(t)
    \/ \E t \in Threads : HsmWriteUnlock(t)
    \/ \E t \in Threads : HsmUnlockShared(t)
    \/ \E t \in Threads : \E o \in {"x", "s"} : DoubleLock(t, o)
    \/ \E t \in Threads : \E o \in {"x", "s"} :
           \E m \in {"notheld", "wrongkind"} : ContractUnlock(t, o, m)

SpecContract == InitContract /\ [][NextContract]_vars

-----------------------------------------------------------------------------
(* Threads that take and release a lock over and over.  After each         *)
(* lock/unlock pair a thread starts again with its handle and profile       *)
(* initialised anew, so that a behaviour may go on for ever.                *)

NLive == 3

\* libtle_*_mutex_handle_init and libtle_*_mutex_profile_init before the next pair
Again(t) ==
    /\ th[t].pc = "idle"
    /\ th[t].ops > 0
    /\ ~InTx(th[t])
    /\ th' = [th EXCEPT ![t] = InitThread]
    /\ UNCHANGED <<cfg, slock, rwlock, wflag, g_i>>

\* the one thread that takes the lock for writing; the others take it for reading
LiveWriter == 1

\* thread t is inside libtle_rwlock_write_lock
InWriteLock(t) == th[t].pc \in {"wl_load", "wl_cas", "wl_or", "wl_llsc"}

\* one writer and NLive - 1 readers on a libtle_spin_shared_mutex
InitRWLive ==
    /\ cfg \in RWBuilds("rw", 0, FALSE)
    /\ InitMemory(NLive)

\* the steps of thread t
RWLiveStep(t) ==
    \/ Fresh(t) /\ SpinSharedMutexLock(t, IF t = LiveWriter THEN "x" ELSE "s")
    \/ WlLoad(t)
    \/ WlCas(t)
    \/ WlOr(t)
    \/ WlLlsc(t)
    \/ RlLoad(t)
    \/ RlAdd(t)
    \/ RlUndo(t)
    \/ RlLlsc(t)
    \/ CsWork(t)
    \/ SpinSharedMutexUnlock(t)
    \/ SpinSharedMutexUnlockShared(t)
    \/ Again(t)

NextRWLive ==
    \/ \E t \in Threads :
           Fresh(t) /\ SpinSharedMutexLock(t, IF t = LiveWriter THEN "x" ELSE "s")
    \/ \E t \in Threads : WlLoad(t)
    \/ \E t \in Threads : WlCas(t)
    \/ \E t \in Threads : WlOr(t)
    \/ \E t \in Threads : WlLlsc(t)
    \/ \E t \in Threads : RlLoad(t)
    \/ \E t \in Threads : RlAdd(t)
    \/ \E t \in Threads : RlUndo(t)
    \/ \E t \in Threads : RlLlsc(t)
    \/ \E t \in Threads : CsWork(t)
    \/ \E t \in Threads : SpinSharedMutexUnlock(t)
    \/ \E t \in Threads : SpinSharedMutexUnlockShared(t)
    \/ \E t \in Threads : Again(t)

\* every thread that can take a step eventually takes one
SpecRWLive ==
    /\ InitRWLive
    /\ [][NextRWLive]_vars
    /\ \A t \in 1..NLive : WF_vars(RWLiveStep(t))

\* thread t is inside libtle_htm_spin_shared_mutex_lock
InHsmLock(t) ==
    \/ th[t].pc \in {"hl_wait", "hl_begin", "hl_check", "wf_set"}
    \/ InWriteLock(t)

\* one writer and NLive - 1 readers on a libtle_htm_spin_shared_mutex
HsmLiveBuilds == {b \in RWBuilds("hsm", 1, FALSE) : b.arch # "generic"}

InitHsmLive ==
    /\ cfg \in HsmLiveBuilds
    /\ InitMemory(NLive)

\* the steps of thread t
HsmLiveStep(t) ==
    \/ Fresh(t) /\ HtmLock(t, IF t = LiveWriter THEN "x" ELSE "s")
    \/ HlWait(t)
    \/ HlBegin(t)
    \/ HlCheck(t)
    \/ \E a \in HwAborts : HwAbort(t, a)
    \/ WlLoad(t)
    \/ WlCas(t)
    \/ WlOr(t)
    \/ WlLlsc(t)
    \/ WfSet(t)
    \/ RlLoad(t)
    \/ RlAdd(t)
    \/ RlUndo(t)
    \/ RlLlsc(t)
    \/ CsWork(t)
    \/ HsmUnlock(t)
    \/ HsmWriteUnlock(t)
    \/ HsmUnlockShared(t)
    \/ Again(t)

NextHsmLive ==
    \/ \E t \in Threads :
           Fresh(t) /\ HtmLock(t, IF t = LiveWriter THEN "x" ELSE "s")
    \/ \E t \in Threads : HlWait(t)
    \/ \E t \in Threads : HlBegin(t)
    \/ \E t \in Threads : HlCheck(t)
    \/ \E t \in Threads : \E a \in HwAborts : HwAbort(t, a)
    \/ \E t \in Threads : WlLoad(t)
    \/ \E t \in Threads : WlCas(t)
    \/ \E t \in Threads : WlOr(t)
    \/ \E t \in Threads : WlLlsc(t)
    \/ \E t \in Threads : WfSet(t)
    \/ \E t \in Threads : RlLoad(t)
    \/ \E t \in Threads : RlAdd(t)
    \/ \E t \in Threads : RlUndo(t)
    \/ \E t \in Threads : RlLlsc(t)
    \/ \E t \in Threads : CsWork(t)
    \/ \E t \in Threads : HsmUnlock(t)
    \/ \E t \in Threads : HsmWriteUnlock(t)
    \/ \E t \in Threads : HsmUnlockShared(t)
    \/ \E t \in Threads : Again(t)

SpecHsmLive ==
    /\ InitHsmLive
    /\ [][NextHsmLive]_vars
    /\ \A t \in 1..NLive : WF_vars(HsmLiveStep(t))

\* thread t is inside libtle_spinlock_lock
InSpinLock(t) == th[t].pc \in {"sl_dec", "sl_spin", "sl_tas"}

\* NLive threads on a libtle_spin_mutex
InitSpinLive ==
    /\ cfg \in {Build(a, TRUE, "spin", 0, FALSE) : a \in {"x86", "aarch64", "generic"}}
    /\ InitMemory(NLive)

\* the steps of thread t
SpinLiveStep(t) ==
    \/ Fresh(t) /\ SpinMutexLock(t)
    \/ SpinDec(t)
    \/ SpinSpin(t)
    \/ SpinTas(t)
    \/ CsWork(t)
    \/ SpinMutexUnlock(t)
    \/ Again(t)

NextSpinLive ==
    \/ \E t \in Threads : Fresh(t) /\ SpinMutexLock(t)
    \/ \E t \in Threads : SpinDec(t)
    \/ \E t \in Threads : SpinSpin(t)
    \/ \E t \in Threads : SpinTas(t)
    \/ \E t \in Threads : CsWork(t)
    \/ \E t \in Threads : SpinMutexUnlock(t)
    \/ \E t \in Threads : Again(t)

SpecSpinLive ==
    /\ InitSpinLive
    /\ [][NextSpinLive]_vars
    /\ \A t \in 1..NLive : WF_vars(SpinLiveStep(t))

-----------------------------------------------------------------------------
(* tle::unique_lock and tle::shared_lock: the constructor without          *)
(* defer_lock calls lock() or lock_shared() on the handle, the constructor  *)
(* with defer_lock does not, the member lock() does, and the destructor     *)
(* calls unlock() or unlock_shared().  The unlock at the end of a critical  *)
(* section is the destructor's.                                             *)

\* unique_lock(mutex_type&) (o = "x"), shared_lock(mutex_type&) (o = "s"), and
\* the two constructors that take defer_lock
ScopedConstruct(t, o, defer) ==
    /\ Fresh(t)
    /\ CanCall(t)
    /\ th[t].scope = "none"
    /\ o = "x" \/ HasShared
    /\ th' = [th EXCEPT ![t] =
                IF defer THEN [@ EXCEPT !.scope = "deferred", !.op = o]
                ELSE [CallLock(@, o) EXCEPT !.scope = "owning"]]
    /\ UNCHANGED <<cfg, slock, rwlock, wflag, g_i>>

\* the member lock() of a guard constructed with defer_lock
ScopedLock(t) ==
    /\ th[t].scope = "deferred"
    /\ CanCall(t)
    /\ th' = [th EXCEPT ![t] = CallLock(@, th[t].op)]
    /\ UNCHANGED <<cfg, slock, rwlock, wflag, g_i>>

\* the destructor of a guard constructed with defer_lock and never locked
ScopeExitDeferred(t) ==
    /\ th[t].scope = "deferred"
    /\ ContractUnlock(t, th[t].op, "notheld")

\* the destructor of a guard whose member unlock() the caller has called and
\* which has returned: the unlock() the destructor makes on the handle
ScopeExitReleased(t) ==
    /\ th[t].scope = "none"
    /\ th[t].ops > 0
    /\ ContractUnlock(t, th[t].op, "notheld")

\* the builds with assertions of the six mutex types
ScopedBuilds ==
    {Build("x86", TRUE, k, 0, FALSE) : k \in {"null", "nullsh"}}
    \cup {Build(a, TRUE, k, 1, FALSE) : a \in {"x86", "aarch64"}, k \in {"spin", "htm"}}
    \cup RWBuilds("rw", 0, FALSE)
    \cup {b \in RWBuilds("hsm", 1, FALSE) : b.arch # "generic"}

InitScoped ==
    /\ cfg \in ScopedBuilds
    /\ InitMemory(NThreads)

NextScoped ==
    \/ \E t \in Threads : \E o \in {"x", "s"} : \E defer \in BOOLEAN :
           ScopedConstruct(t, o, defer)
    \/ \E t \in Threads : ScopedLock(t)
    \/ \E t \in Threads : HlWait(t)
    \/ \E t \in Threads : HlBegin(t)
    \/ \E t \in Threads : HlCheck(t)
    \/ \E t \in Threads : \E a \in HwAborts : HwAbort(t, a)
    \/ \E t \in Threads : SpinDec(t)
    \/ \E t \in Threads : SpinSpin(t)
    \/ \E t \in Threads : SpinTas(t)
    \/ \E t \in Threads : WlLoad(t)
    \/ \E t \in Threads : WlCas(t)
    \/ \E t \in Threads : WlOr(t)
    \/ \E t \in Threads : WlLlsc(t)
    \/ \E t \in Threads : WfSet(t)
    \/ \E t \in Threads : RlLoad(t)
    \/ \E t \in Threads : RlAdd(t)
    \/ \E t \in Threads : RlUndo(t)
    \/ \E t \in Threads : RlLlsc(t)
    \/ \E t \in Threads : CsWork(t)
    \/ \E t \in Threads : NullUnlock(t)
    \/ \E t \in Threads : SpinMutexUnlock(t)
    \/ \E t \in Threads : SpinSharedMutexUnlock(t)
    \/ \E t \in Threads : SpinSharedMutexUnlockShared(t)
    \/ \E t \in Threads : HtmUnlock(t)
    \/ \E t \in Threads : HsmUnlock(t)
    \/ \E t \in Threads : HsmWriteUnlock(t)
    \/ \E t \in Threads : HsmUnlockShared(t)
    \/ \E t \in Threads : ScopeExitDeferred(t)
    \/ \E t \in Threads : ScopeExitReleased(t)

SpecScoped == InitScoped /\ [][NextScoped]_vars

-----------------------------------------------------------------------------
(* Scenario E5: an htm_spin_mutex with retry limit 1; the last thread (the  *)
(* contender) makes one lock()/unlock() pair, and calls lock() while the    *)
(* thread before it (the holder) holds the fallback spinlock.               *)

E5Holder == NThreads - 1
E5Contender == NThreads

\* the holder is in its critical section with the spinlock taken
HoldsFallback(t) == InCS(t) /\ ~InTx(th[t]) /\ SpinIsLocked(slock)

\* the contender's single call of libtle_htm_spin_mutex_lock
E5ContenderLock ==
    /\ th[E5Contender].ops = 0
    /\ HoldsFallback(E5Holder)
    /\ HtmLock(E5Contender, "x")

E5Builds == {Build(a, TRUE, "htm", 1, FALSE) : a \in {"x86", "aarch64"}}

InitE5 ==
    /\ cfg \in E5Builds
    /\ InitMemory(NThreads)

NextE5 ==
    \/ \E t \in Threads \ {E5Contender} : HtmLock(t, "x")
    \/ E5ContenderLock
    \/ \E t \in Threads : HlWait(t)
    \/ \E t \in Threads : HlBegin(t)
    \/ \E t \in Threads : HlCheck(t)
    \/ \E t \in Threads : \E a \in HwAborts : HwAbort(t, a)
    \/ \E t \in Threads : SpinDec(t)
    \/ \E t \in Threads : SpinSpin(t)
    \/ \E t \in Threads : SpinTas(t)
    \/ \E t \in Threads : CsWork(t)
    \/ \E t \in Threads : HtmUnlock(t)

SpecE5 == InitE5 /\ [][NextE5]_vars

-----------------------------------------------------------------------------
(* Boundary cases and scenarios of the HTM mutexes.                        *)

\* C11: with the retry limit configured as 0 a lock call on an HTM mutex never
\* enters the critical section inside a transaction, and locks_elided stays 0.
C11_ZeroLimitNeverElides ==
    (HTM /\ R = 0) =>
        \A t \in Threads :
            /\ InCS(t) => ~InTx(th[t])
            /\ th[t].prof.locks_elided = 0

\* the contender has returned from its unlock()
E5Done == th[E5Contender].ops = 1 /\ th[E5Contender].pc = "idle"

\* C12 as stated: in scenario E5 the contender's profile ends with at least
\* one abort and exactly one locks_acquired.
C12_Original ==
    E5Done =>
        /\ Aborts(th[E5Contender].prof) >= 1
        /\ th[E5Contender].prof.locks_acquired = 1

\* C12: in scenario E5 the contender never is in its critical section while
\* the holder holds the fallback; its single entry is counted once, either as
\* locks_acquired with at least one abort recorded, or as locks_elided with no
\* abort recorded (it waited for the release and its first transaction
\* committed).
C12_Amended ==
    LET p == th[E5Contender].prof
    IN  /\ ~(InCS(E5Contender) /\ HoldsFallback(E5Holder))
        /\ E5Done =>
            /\ p.locks_acquired + p.locks_elided = 1
            /\ p.locks_acquired = 1 <=> Aborts(p) >= 1
            /\ p.locks_elided = 1 <=> Aborts(p) = 0

\* the contender waited for the holder's release and finished by elision
\* without an abort
C12_Witness ==
    /\ E5Done
    /\ th[E5Contender].prof.locks_elided = 1
    /\ Aborts(th[E5Contender].prof) = 0
    /\ th[E5Holder].prof.locks_acquired >= 1

-----------------------------------------------------------------------------
(* Contract violations.                                                    *)

\* C13 as stated: on a build with assertions every contract violation (double
\* lock, unlock of a handle not held, unlock of the wrong kind) ends in a
\* failing assertion and never completes.
C13_Original ==
    \A t \in Threads : th[t].misuse # "none" => th[t].pc = "assert_failed"

\* C13: on a build with assertions a double lock and an unlock of a handle
\* that is not held end in a failing assertion that stops the process, and so
\* does an unlock of the wrong kind on a handle that is LOCKED_UNIQUE or
\* LOCKED_SHARED; on an ELIDED handle of the htm_spin_shared_mutex an unlock of
\* the wrong kind commits the transaction and completes.  A double lock inside
\* an elided critical section fails its assertion inside the transaction,
\* which aborts and rolls the handle back.
C13_Amended ==
    [][\A t \in Threads :
          /\ th'[t].misuse \notin {th[t].misuse, "none"} =>
                \/ th'[t].pc = "assert_failed" /\ ~InTx(th[t])
                \/ /\ th'[t].misuse = "wrongkind"
                   /\ kind = "hsm"
                   /\ th[t].status = ELIDED
                   /\ th'[t].status = UNLOCKED
                   /\ th'[t].pc = "idle"
          /\ (th'[t].cause = "assert" /\ th[t].cause # "assert") =>
                /\ th[t].status = ELIDED
                /\ ~InTx(th'[t])
                /\ th'[t].status = th[t].saved
                /\ ~InCS(t)'
      ]_vars

\* an unlock() on a handle that lock_shared() left LOCKED_SHARED has stopped
\* the process of an htm_spin_shared_mutex
C13_Witness ==
    /\ th[1].pc = "assert_failed"
    /\ th[1].misuse = "wrongkind"
    /\ th[1].status = LOCKED_SHARED
    /\ kind = "hsm"

-----------------------------------------------------------------------------
(* Writer priority of the rwlock.                                          *)

\* the step in which read_lock's increment of the reader count is kept:
\* thread t returns from libtle_rwlock_read_lock
ReaderAcquires(t) ==
    /\ th[t].pc \in {"rl_add", "rl_llsc"}
    /\ th'[t].pc = "cs"

\* C14 as stated: every reader-count increment that is kept takes effect at an
\* instant when bits 0 and 1 of the lock word are both clear.
C14_Original ==
    [][\A t \in Threads : ReaderAcquires(t) => NoWriter(rwlock)]_vars

\* C14: a reader goes on to increment the count only from a load that found
\* bits 0 and 1 both clear, and every increment that is kept takes effect at
\* an instant when bit 0 (active writer) is clear.  With the exclusive
\* load/store pair of AArch64 the load and the increment are one atomic step,
\* so bit 1 is clear as well; with the separate load and fetch-and-add of the
\* x86-64 and portable builds a writer may set the pending bit in between, and
\* the increment is kept all the same.
C14_Amended ==
    [][\A t \in Threads :
          /\ ReaderAcquires(t) =>
                /\ rwlock.aw = 0
                /\ arch = "aarch64" => rwlock.pw = 0
          /\ (th[t].pc = "rl_load" /\ th'[t].pc = "rl_add") => NoWriter(rwlock)
      ]_vars

\* a reader between its load and its fetch-and-add while a writer is pending
C14_Witness ==
    \E t \in Threads :
        /\ th[t].pc = "rl_add"
        /\ rwlock.pw = 1
        /\ rwlock.aw = 0

-----------------------------------------------------------------------------
(* Progress.                                                               *)

\* C15: with one writer against readers that keep re-acquiring and releasing
\* a libtle_spin_shared_mutex, under weak fairness of every thread's steps the
\* writer's call of write_lock eventually returns.
C15_WriterEventuallyAcquires ==
    InWriteLock(LiveWriter) ~> (th[LiveWriter].pc = "cs")

\* C16: with one writer against readers that keep re-acquiring and releasing
\* a libtle_htm_spin_shared_mutex, under weak fairness of every thread's steps
\* the writer's call of lock() eventually returns.
C16_HsmWriterEventuallyReturns ==
    InHsmLock(LiveWriter) ~> InCS(LiveWriter)

\* C17 as stated: under weak fairness of every thread's steps each call of
\* libtle_spinlock_lock eventually returns, also when other threads keep
\* re-acquiring the lock.
C17_Original ==
    \A t \in 1..NLive : InSpinLock(t) ~> (th[t].pc = "cs")

\* C17: under weak fairness of every thread's steps a call of
\* libtle_spinlock_lock returns unless other threads acquire the lock again
\* and again for ever: the lock is taken by whichever thread's atomic
\* operation finds it free, and a waiting thread has no precedence over a
\* thread that arrives later.
C17_Amended ==
    \A t \in 1..NLive :
        \/ []<>(~InSpinLock(t))
        \/ []<>(\E u \in (1..NLive) \ {t} : th[u].pc = "cs")

\* a thread spins in libtle_spinlock_lock on the x86-64 build while another
\* thread has just taken the lock
C17_Witness ==
    \E t, u \in Threads :
        /\ th[t].pc = "sl_spin"
        /\ th[u].pc = "cs"
        /\ slock < 0

-----------------------------------------------------------------------------
(* Scoped acquisition.                                                     *)

\* C18: a tle::unique_lock or tle::shared_lock constructed without defer_lock
\* is never outside a lock or unlock call with its handle not held; when its
\* constructor has returned the handle is held by the kind of the guard (or
\* ELIDED); the scope ends by one unlock call of that kind, made from the
\* critical section and never before another lock call, and leaves the handle
\* UNLOCKED.
C18_ScopedAcquisition ==
    [][\A t \in Threads :
          LET r == th[t]
              q == th'[t]
          IN  r.scope = "owning" =>
                /\ r.pc \notin {"idle", "assert_failed"}
                /\ InCS(t) => r.status \in {FallbackStatus(r.op), ELIDED}
                /\ q.scope # "owning" /\ q.pc # "killed" =>
                      /\ r.pc \in {"cs_x", "wu_state"}
                      /\ q.pc = "idle"
                      /\ q.ops = r.ops + 1
                      /\ q.status = UNLOCKED
                      /\ q.misuse = "none"
      ]_vars

\* a shared_lock on an htm_spin_shared_mutex handle whose constructor took
\* the fallback, at the end of its scope
C18_Witness ==
    \E t \in Threads :
        /\ th[t].scope = "owning"
        /\ th[t].pc = "cs_x"
        /\ th[t].op = "s"
        /\ th[t].status = LOCKED_SHARED
        /\ kind = "hsm"

-----------------------------------------------------------------------------
(* Round trip.                                                             *)

\* thread t has made lock/unlock pairs on a mutex no other thread has touched
AloneAfterUnlock(t) ==
    /\ th[t].pc = "idle"
    /\ th[t].ops >= 1
    /\ ~InTx(th[t])
    /\ \A u \in Threads \ {t} : th[u] = InitThread

\* C19: a lock() or lock_shared() followed by the matching unlock on an
\* otherwise idle mutex leaves the handle UNLOCKED and the spinlock, the
\* rwlock state and the writer flag at their initial free values, whichever
\* path the lock call took.
C19_RoundTrip ==
    \A t \in Threads :
        AloneAfterUnlock(t) =>
            /\ StatusTracked => th[t].status = UNLOCKED
            /\ slock = SpinFree
            /\ rwlock = RWZero
            /\ wflag = SpinFree

-----------------------------------------------------------------------------
(* The two builds of libtle_htm_spin_mutex_unlock.                         *)

\* C20: whenever a holder of an htm_spin_mutex is about to call unlock, the
\* -DNDEBUG rule (release the spinlock if it reads locked, else commit) picks
\* the case the switch on the handle status picks, and picks the commit
\* exactly when the holder is inside a transaction; the two cases update the
\* profile the same way in both builds.
C20_ReleaseRuleAgrees ==
    \A t \in Threads :
        (kind = "htm" /\ th[t].pc = "cs_x") =>
            /\ ReleaseBranch = ELIDED <=> InTx(th[t])
            /\ ~cfg.ndebug => th[t].status = ReleaseBranch

\* a holder that took the fallback is about to unlock on the build with
\* assertions while another thread waits for the release
C20_Witness ==
    \E t, u \in Threads :
        /\ kind = "htm"
        /\ ~cfg.ndebug
        /\ th[t].pc = "cs_x"
        /\ th[t].status = LOCKED_UNIQUE
        /\ ReleaseBranch = LOCKED_UNIQUE
        /\ th[u].pc = "hl_wait"

-----------------------------------------------------------------------------
(* The fallback writer of the htm_spin_shared_mutex.                       *)

\* thread t is a fallback writer: between the return of write_lock and the
\* return of write_unlock in lock() ... unlock() of the htm_spin_shared_mutex
FallbackWriter(t) ==
    \/ th[t].pc = "wf_set"
    \/ InCS(t) /\ th[t].status = LOCKED_UNIQUE
    \/ th[t].pc = "wu_state"

\* C21: on the htm_spin_shared_mutex lock() sets the writer flag after
\* write_lock has returned (the active-writer bit is set) and unlock() clears
\* the flag before write_unlock; so the flag is held whenever a handle is
\* LOCKED_UNIQUE between lock() and unlock(), and no fallback writer stores the
\* flag while another fallback writer has yet to clear it.
C21_WriterFlagOrdering ==
    /\ [](kind = "hsm" =>
            \A t \in Threads :
                (InCS(t) /\ th[t].status = LOCKED_UNIQUE) => SpinIsLocked(wflag))
    /\ [][kind = "hsm" =>
            \A t \in Threads :
                /\ (th[t].pc = "wf_set" /\ th'[t].pc = "cs") =>
                      /\ rwlock.aw = 1
                      /\ ~SpinIsLocked(wflag) /\ SpinIsLocked(wflag')
                      /\ \A u \in Threads \ {t} : ~FallbackWriter(u)
                /\ (th[t].pc = "wu_state" /\ th'[t].pc = "idle") =>
                      /\ ~SpinIsLocked(wflag)
                      /\ rwlock.aw = 1 /\ rwlock'.aw = 0
                /\ (th[t].pc = "cs_x" /\ th'[t].pc = "wu_state") =>
                      SpinIsLocked(wflag) /\ ~SpinIsLocked(wflag')
       ]_vars

\* C22: on the htm_spin_shared_mutex, whenever the writer flag is held the
\* active-writer bit of the rwlock is set and the one thread whose write_lock
\* set it is the holder of the flag; at most one thread is between the return
\* of write_lock and its store to the flag, and that store finds the flag free.
C22_FlagImpliesActiveWriter ==
    kind = "hsm" =>
        /\ SpinIsLocked(wflag) =>
              /\ rwlock.aw = 1
              /\ Cardinality({t \in Threads : FallbackWriter(t) /\ th[t].pc # "wf_set"}) = 1
        /\ Cardinality({t \in Threads : th[t].pc = "wf_set"}) <= 1
        /\ (\E t \in Threads : th[t].pc = "wf_set") =>
              /\ ~SpinIsLocked(wflag)
              /\ rwlock.aw = 1

-----------------------------------------------------------------------------
(* The rwlock word.                                                        *)

\* the step in which thread t executes libtle_rwlock_write_unlock
WriteUnlocks(t) ==
    /\ th[t].pc = "cs_x"
    /\ th[t].op = "x"
    /\ th'[t].pc = "idle"

\* C23: write_unlock clears the active-writer bit and the pending-writer bit
\* in one atomic step, also when the pending bit was set by another writer
\* that is still waiting, and leaves the reader count as it was.
C23_WriteUnlockEffect ==
    [][\A t \in Threads :
          WriteUnlocks(t) =>
              /\ rwlock'.aw = 0
              /\ rwlock'.pw = 0
              /\ rwlock'.rc = rwlock.rc
      ]_vars

\* a writer is about to call write_unlock while a second writer, which has set
\* the pending bit, waits in write_lock and a reader that incremented the count
\* has yet to undo it
C23_Witness ==
    \E t, u, v \in Threads :
        /\ th[t].pc = "cs_x" /\ th[t].op = "x"
        /\ th[u].pc = "wl_load" /\ th[u].op = "x"
        /\ th[v].pc = "rl_undo"
        /\ rwlock = RWWord(1, 1, 1)

\* C24 as stated: whenever bit 0 (active writer) of the rwlock word is set,
\* the reader count is 0.
C24_Original == rwlock.aw = 1 => rwlock.rc = 0

\* C24: read_lock's increment of the reader count is applied whatever bit 0
\* is, so the word can have bit 0 set and a non-zero reader count; an increment
\* that found bit 0 set leaves bit 0 as it was, does not let read_lock return,
\* and is taken back by the reader's next step on the word, a subtraction of
\* 4, after which the reader starts again from its load.
C24_Amended ==
    [][\A t \in Threads :
          /\ (th[t].pc = "rl_add" /\ th'[t].pc # "rl_add" /\ rwlock.aw = 1) =>
                /\ th'[t].pc = "rl_undo"
                /\ rwlock' = FetchAdd4(rwlock)
          /\ (th[t].pc = "rl_add" /\ th'[t].pc = "cs") => rwlock.aw = 0
          /\ th[t].pc = "rl_undo" =>
                \/ th'[t].pc = "rl_undo"
                \/ /\ th'[t].pc = "rl_load"
                   /\ rwlock'.rc = (rwlock.rc - 1) % RCountMod
                   /\ rwlock'.aw = rwlock.aw /\ rwlock'.pw = rwlock.pw
      ]_vars

\* a writer is in its critical section, bit 0 is set and the reader count is
\* 1: a reader that had loaded the word free has incremented the count
C24_Witness ==
    \E t, u \in Threads :
        /\ th[t].pc = "cs" /\ th[t].op = "x"
        /\ th[u].pc = "rl_undo"
        /\ rwlock = RWWord(1, 0, 1)

\* the step in which thread t's libtle_rwlock_write_lock acquires the lock
WriteAcquires(t) ==
    /\ InWriteLock(t)
    /\ th'[t].pc \in {"cs", "wf_set"}

\* C25 as stated: a successful write_lock replaces the word by the word with
\* bit 0 set, so a pending bit in it is still set after the acquire, and the
\* pending bit is cleared by write_unlock alone.
C25_Original ==
    [][/\ \A t \in Threads : WriteAcquires(t) => rwlock' = [rwlock EXCEPT !.aw = 1]
       /\ (rwlock.pw = 1 /\ rwlock'.pw = 0) => \E t \in Threads : WriteUnlocks(t)
      ]_vars

\* C25: a successful write_lock replaces the word by the constant 1: bit 0
\* set, the pending bit clear whatever it was, the reader count 0.  The pending
\* bit is cleared by the acquiring store of write_lock and by write_unlock, and
\* by nothing else.
C25_Amended ==
    [][/\ \A t \in Threads : WriteAcquires(t) => rwlock' = RWWord(1, 0, 0)
       /\ (rwlock.pw = 1 /\ rwlock'.pw = 0) =>
             \E t \in Threads : WriteUnlocks(t) \/ WriteAcquires(t)
      ]_vars

\* a writer that loaded the word with only the pending bit set is about to
\* execute its compare-and-swap on the unchanged word
C25_Witness ==
    \E t \in Threads :
        /\ th[t].pc = "wl_cas"
        /\ th[t].acc = RWWord(0, 1, 0)
        /\ rwlock = RWWord(0, 1, 0)
        /\ ~Faulty

\* no thread holds the rwlock and none is inside one of its operations
Quiescent == \A t \in Threads : th[t].pc = "idle"

\* C26: in every state in which no thread holds the rwlock and no thread is
\* inside read_lock or write_lock, the lock word is 0; the pending bit is not
\* left set when no writer is waiting.
C26_QuiescentWordIsZero == Quiescent => rwlock = RWZero

\* the threads that have executed read_lock's +4 and not yet the matching -4:
\* the holders of a read lock, and the readers about to undo their increment
CountedReaders ==
    {t \in Threads : th[t].pc = "rl_undo" \/ (InCS(t) /\ th[t].op = "s")}

\* C27: the reader count equals the number of threads that have executed their
\* increment and not yet the matching decrement (read_unlock, or the undo after
\* finding an active writer); a decrement is applied only to a count of at
\* least 1.
C27_ReaderCountExact ==
    /\ [](rwlock.rc = Cardinality(CountedReaders))
    /\ [][rwlock'.rc = (rwlock.rc - 1) % RCountMod => rwlock.rc >= 1]_vars

-----------------------------------------------------------------------------
(* The transactional attempts of the HTM lock calls.                       *)

\* C28: a lock call on an HTM mutex returns on its transactional path only
\* from inside a live transaction that has read the subscribed lock word
\* (fallback spinlock; rwlock state for lock() and writer flag for
\* lock_shared() of the shared mutex) as free, and leaves the handle ELIDED;
\* an attempt that reads the word as held does not return: the transaction is
\* aborted, explicitly with the status of _xabort(LIBTLE_LOCK_IS_LOCKED), and
\* the handle is rolled back.
C28_ExplicitAbortWhenHeld ==
    [][HTM =>
        \A t \in Threads :
            LET r == th[t]
                q == th'[t]
                l == SubWord(r)
            IN  /\ (r.pc = "hl_check" /\ q.pc = "cs") =>
                      /\ ~IsLocked(l)
                      /\ InTx(q) /\ l \in q.rs
                      /\ StatusTracked => q.status = ELIDED
                /\ (StatusTracked /\ q.status = ELIDED /\ r.status # ELIDED) =>
                      r.pc = "hl_check" /\ q.pc = "cs"
                /\ (r.pc = "hl_check" /\ IsLocked(l) /\ q # r) =>
                      /\ ~InTx(q)
                      /\ q.pc \notin {"cs", "hl_check"}
                      /\ q.status = r.saved
                      /\ q.cause \in {"explicit", "hw", "lockword"}
                      /\ q.cause = "explicit" => q.xs = XAbortStatus
      ]_vars

\* a transaction that began on a free lock word found it held when it read
\* it, was aborted explicitly, and its thread is waiting or on the fallback
\* while the other thread is in its critical section with the lock taken
C28_Witness ==
    \E t, u \in Threads :
        /\ HTM
        /\ th[t].cause = "explicit"
        /\ th[t].xs = XAbortStatus
        /\ ~InTx(th[t])
        /\ th[t].pc # "idle"
        /\ InCS(u) /\ th[u].status \in {LOCKED_UNIQUE, LOCKED_SHARED}

\* the step in which thread t executes the _xbegin() of its lock call
Begins(t) == th'[t].begins = th[t].begins + 1

\* C29 as stated: whenever lock() on the htm_spin_mutex executes _xbegin(),
\* the fallback spinlock is not held.
C29_Original ==
    [][kind = "htm" => \A t \in Threads : Begins(t) => ~SpinIsLocked(slock)]_vars

\* C29: every _xbegin() of lock() on the htm_spin_mutex follows, in the same
\* iteration, an unlock_wait whose last load read the fallback spinlock as
\* free; the wait and the begin are separate steps, another thread may take
\* the spinlock in between, and the transaction then begins while the fallback
\* is held.  Such a transaction never returns from lock(): it returns only
\* from a read of the spinlock as free.
C29_Amended ==
    [][kind = "htm" =>
        \A t \in Threads :
            /\ Begins(t) => th[t].pc = "hl_begin" /\ th'[t].pc = "hl_check"
            /\ (th'[t].pc = "hl_begin" /\ th[t].pc # "hl_begin") =>
                  th[t].pc = "hl_wait" /\ ~SpinIsLocked(slock)
            /\ (th[t].pc = "hl_check" /\ th'[t].pc = "cs") => ~SpinIsLocked(slock)
      ]_vars

\* a lock call has left unlock_wait and is about to execute _xbegin() while
\* another thread, which took the fallback in the meantime, is in its critical
\* section
C29_Witness ==
    \E t, u \in Threads :
        /\ kind = "htm"
        /\ th[t].pc = "hl_begin"
        /\ SpinIsLocked(slock)
        /\ InCS(u) /\ ~InTx(th[u])

\* the step in which the _xbegin() of thread t's lock call returns an abort
\* status (++num_retries follows it)
AbortReturns(t) == th'[t].nr = th[t].nr + 1

\* thread t is on the transactional path of a lock call
OnTxPath(r) == r.pc \in {"hl_wait", "hl_begin", "hl_check"}

\* C30: when the _xbegin() of a lock call on an HTM mutex returns an abort
\* status, the abort is counted in the profile and the thread is still inside
\* the lock call; when _XBEGIN_RESTART is false for the status the call goes
\* to its fallback acquire whatever num_retries is and begins no further
\* transaction; the call returns to its caller only with the lock elided or
\* taken.
C30_NonRestartableFallsBack ==
    /\ [](HTM => \A t \in Threads :
            /\ OnTxPath(th[t]) =>
                  th[t].xs = XSTARTED \/ (XBEGIN_RESTART(th[t].xs) /\ th[t].nr < R)
            /\ InCS(t) =>
                  /\ th[t].xs = XSTARTED
                  /\ StatusTracked => th[t].status \in {ELIDED, FallbackStatus(th[t].op)})
    /\ [][HTM => \A t \in Threads :
            LET r == th[t]
                q == th'[t]
            IN  /\ AbortReturns(t) =>
                      /\ Aborts(q.prof) = Aborts(r.prof) + 1
                      /\ q.prof.locks_acquired = r.prof.locks_acquired
                      /\ q.prof.locks_elided = r.prof.locks_elided
                      /\ q.xs # XSTARTED
                      /\ ~InTx(q)
                      /\ q.pc \notin {"idle", "cs"}
                      /\ ~XBEGIN_RESTART(q.xs) => ~OnTxPath(q)
                /\ (~OnTxPath(r) /\ r.pc # "idle" /\ q.pc # "idle") =>
                      q.begins = r.begins
       ]_vars

\* with a retry limit of 2 a lock call whose first transaction was aborted
\* with a status that is not restartable has taken the fallback after that
\* single attempt
C30_Witness ==
    \E t \in Threads :
        /\ HTM
        /\ R = 2
        /\ InCS(t)
        /\ th[t].status \in {LOCKED_UNIQUE, LOCKED_SHARED}
        /\ th[t].begins = 1
        /\ th[t].nr = 1
        /\ Aborts(th[t].prof) = 1

-----------------------------------------------------------------------------
(* C31 .. C39                                                              *)

MaxAborts == 3

\* the flags of an abort status that both platforms have
AbortFlags == {"RETRY", "EXPLICIT", "CONFLICT", "CAPACITY", "NESTED", "DEBUG"}

\* libtle_htm_mutex_profile_update_abort(&p, xstatus) on the profile of thread
\* t, xstatus being any combination of flags; nr counts the calls
ProfileUpdateAbort(t, a) ==
    /\ th[t].nr < MaxAborts
    /\ th' = [th EXCEPT ![t].prof = UpdateAbort(@, a), ![t].xs = a, ![t].nr = @ + 1]
    /\ UNCHANGED <<cfg, slock, rwlock, wflag, g_i>>

InitProfile ==
    /\ cfg \in {Build(a, TRUE, "htm", 0, FALSE) : a \in {"x86", "aarch64"}}
    /\ InitMemory(1)

NextProfile == \E t \in Threads : \E a \in SUBSET AbortFlags : ProfileUpdateAbort(t, a)

SpecProfile == InitProfile /\ [][NextProfile]_vars

\* the counter the stated precedence selects for status a
AbortClass(a) ==
    CASE "CONFLICT" \in a -> "conflict_aborts"
      [] "CONFLICT" \notin a /\ "EXPLICIT" \in a -> "explicit_aborts"
      [] {"CONFLICT", "EXPLICIT"} \cap a = {} /\ "CAPACITY" \in a -> "capacity_aborts"
      [] {"CONFLICT", "EXPLICIT", "CAPACITY"} \cap a = {} /\ "NESTED" \in a -> "nested_aborts"
      [] OTHER -> "other_aborts"

AbortCounters ==
    {"explicit_aborts", "conflict_aborts", "capacity_aborts", "nested_aborts", "other_aborts"}

\* C32: for every abort status libtle_htm_mutex_profile_update_abort adds 1 to
\* exactly one of the five abort counters, the first that applies of
\* CONFLICT, EXPLICIT, CAPACITY, NESTED, other, and leaves the other fields
\* of the profile as they were; the five counters sum to the number of
\* aborts recorded.
C32_AbortClassification ==
    /\ [](\A t \in Threads : Aborts(th[t].prof) = th[t].nr)
    /\ [][\A t \in Threads :
            LET p == th[t].prof
                q == th'[t].prof
                a == th'[t].xs
            IN  th'[t].nr = th[t].nr + 1 =>
                  /\ DOMAIN q = DOMAIN p
                  /\ \A f \in DOMAIN p :
                        q[f] = IF f = AbortClass(a) THEN p[f] + 1 ELSE p[f]
                  /\ Cardinality({f \in AbortCounters : q[f] # p[f]}) = 1
                  /\ q.locks_acquired = p.locks_acquired
                  /\ q.locks_elided = p.locks_elided
       ]_vars

\* a profile that recorded a status with CONFLICT and EXPLICIT as a conflict
\* abort, a status with EXPLICIT and CAPACITY as an explicit abort and a
\* status with only RETRY as an other abort
C32_Witness ==
    \E t \in Threads :
        /\ th[t].nr = 3
        /\ th[t].xs = {"RETRY"}
        /\ th[t].prof.conflict_aborts = 1
        /\ th[t].prof.explicit_aborts = 1
        /\ th[t].prof.other_aborts = 1
        /\ th[t].prof.capacity_aborts = 0
        /\ th[t].prof.nested_aborts = 0

\* lock word l is in a held state: the spinlock word is not at its free
\* value; the rwlock word has an active writer, a pending writer or readers
HeldWord(l) ==
    IF l = "rwlock" THEN rwlock.aw = 1 \/ rwlock.pw = 1 \/ rwlock.rc # 0
    ELSE IF l = "slock" THEN slock # SpinFree
    ELSE wflag # SpinFree

\* thread t was aborted in this step while it was inside its caller's
\* transaction
OuterAborted(t) == th[t].outer /\ ~th'[t].outer /\ th'[t].pc = "idle"

InReadLock(t) == th[t].pc \in {"rl_load", "rl_add", "rl_undo", "rl_llsc"}

\* C34: on the HTM shared mutex the writer flag changes only in a step of a
\* lock() that sets it after write_lock or of an unlock() of a LOCKED_UNIQUE
\* handle that clears it; the steps of lock_shared() and unlock_shared()
\* leave it as it is: an elided reader has it in its read set, and the
\* fallback of lock_shared() and the LOCKED_SHARED case of unlock_shared()
\* change the rwlock word only.
C34_SharedNeverWritesFlag ==
    /\ [](kind = "hsm" => \A t \in Threads :
            (InCS(t) /\ th[t].op = "s" /\ th[t].status = ELIDED) =>
                InTx(th[t]) /\ "wflag" \in th[t].rs)
    /\ [][kind = "hsm" =>
            /\ wflag' # wflag =>
                  \E t \in Threads :
                      /\ th[t].op = "x"
                      /\ th'[t].pc # th[t].pc
                      /\ \/ th[t].pc = "wf_set" /\ wflag' = SpinBusy
                         \/ /\ InCS(t) /\ th[t].status = LOCKED_UNIQUE
                            /\ th'[t].pc = "wu_state" /\ wflag' = SpinFree
            /\ \A t \in Threads :
                  LET r == th[t]
                      q == th'[t]
                  IN  /\ (r.op = "s" /\ InReadLock(t) /\ q.pc # r.pc) =>
                            wflag' = wflag /\ slock' = slock /\ g_i' = g_i
                      /\ (r.op = "s" /\ InCS(t) /\ q.pc = "idle") =>
                            /\ wflag' = wflag /\ slock' = slock
                            /\ r.status = ELIDED => rwlock' = rwlock
                            /\ r.status = LOCKED_SHARED =>
                                  rwlock' = FetchSub4(rwlock) /\ g_i' = g_i
       ]_vars

\* one thread holds the HTM shared mutex through the fallback of
\* lock_shared(), another has elided it with lock_shared(), and the writer
\* flag is free
C34_Witness ==
    \E t, u \in Threads :
        /\ kind = "hsm"
        /\ InCS(t) /\ th[t].op = "s" /\ th[t].status = LOCKED_SHARED
        /\ InCS(u) /\ th[u].op = "s" /\ th[u].status = ELIDED
        /\ "wflag" \in th[u].rs
        /\ rwlock.rc > 0
        /\ wflag = SpinFree

\* some thread other than u holds the mutex as a fallback reader while the
\* writer flag is free
SharedHeldBeside(u) ==
    /\ wflag = SpinFree
    /\ rwlock.rc > 0
    /\ \E t \in Threads \ {u} : InCS(t) /\ th[t].status = LOCKED_SHARED

\* C35: on the HTM shared mutex, while another thread holds the mutex as
\* LOCKED_SHARED with the writer flag free, a lock_shared() is able to leave
\* its unlock_wait, to begin its transaction, to pass the check of the
\* writer flag inside it and to commit in unlock_shared(); and no step that
\* changes the rwlock word, the reader count included, aborts the
\* transaction of a lock_shared().
C35_ReadersElideBesideReaders ==
    /\ [](kind = "hsm" => \A u \in Threads :
            (th[u].op = "s" /\ SharedHeldBeside(u)) =>
                /\ th[u].pc = "hl_wait" => ENABLED HlWait(u)
                /\ th[u].pc = "hl_begin" => ENABLED HlBegin(u)
                /\ th[u].pc = "hl_check" => ENABLED HlCheck(u)
                /\ (th[u].pc = "cs_x" /\ th[u].status = ELIDED) =>
                      ENABLED HsmUnlockShared(u))
    /\ [][kind = "hsm" => \A u \in Threads :
            LET r == th[u]
                q == th'[u]
            IN  /\ (r.op = "s" /\ InTx(r) /\ rwlock' # rwlock) => q = r
                /\ (r.op = "s" /\ SharedHeldBeside(u) /\ q # r /\ q.hw = r.hw) =>
                      /\ r.pc = "hl_wait" => q.pc = "hl_begin"
                      /\ r.pc = "hl_begin" => q.pc = "hl_check" /\ InTx(q)
                      /\ r.pc = "hl_check" =>
                            q.pc = "cs" /\ q.status = ELIDED /\ InTx(q)
                      /\ (r.pc = "cs_x" /\ r.status = ELIDED) =>
                            /\ q.pc = "idle" /\ ~InTx(q) /\ q.status = UNLOCKED
                            /\ q.prof.locks_elided = r.prof.locks_elided + 1
                            /\ rwlock' = rwlock
       ]_vars

\* a thread that fell back in lock_shared() is in its critical section as
\* LOCKED_SHARED, reader count 1 and writer flag free, and the other
\* thread's lock_shared() has elided the mutex without an abort and is about
\* to commit
C35_Witness ==
    \E t, u \in Threads :
        /\ kind = "hsm"
        /\ InCS(t) /\ th[t].op = "s" /\ th[t].status = LOCKED_SHARED
        /\ rwlock = RWWord(0, 0, 1)
        /\ wflag = SpinFree
        /\ th[u].pc = "cs_x" /\ th[u].op = "s" /\ th[u].status = ELIDED
        /\ th[u].nr = 0 /\ th[u].begins = 1
        /\ Aborts(th[u].prof) = 0

\* the statuses of a handle that holds its mutex
HeldStatus == {LOCKED_UNIQUE, LOCKED_SHARED, ELIDED}

\* C36 as stated: a handle starts as UNKNOWN, enters a held status only from
\* UNLOCKED, and once it has left UNKNOWN never has that status again.
C36_Original ==
    /\ [](\A t \in Threads :
            th[t].status \in {UNKNOWN, UNLOCKED} \cup HeldStatus)
    /\ [][\A t \in Threads :
            /\ (th'[t].status \in HeldStatus /\ th[t].status \notin HeldStatus) =>
                  th[t].status = UNLOCKED
            /\ th'[t].status = UNKNOWN => th[t].status = UNKNOWN
       ]_vars

\* C36 amended: a handle starts as UNKNOWN and keeps that status until its
\* first lock call returns, which takes it from UNKNOWN to a held status
\* directly; a held status is entered only at the return of a lock call,
\* from UNKNOWN or UNLOCKED; UNLOCKED is entered from a held status at the
\* return of an unlock call; outside these two the status changes only when
\* a transaction aborts, which restores the status the handle had when the
\* transaction began, UNKNOWN included.
C36_Amended ==
    /\ [](\A t \in Threads :
            /\ th[t].status \in {UNKNOWN, UNLOCKED} \cup HeldStatus
            /\ (th[t].ops = 0 /\ th[t].pc \notin {"cs", "cs_w", "cs_x", "wu_state"}) =>
                  th[t].status = UNKNOWN
            /\ (StatusTracked /\ th[t].ops > 0 /\ ~InTx(th[t])
                    /\ th[t].pc \notin {"cs", "cs_w", "cs_x", "wu_state"}) =>
                  th[t].status = UNLOCKED)
    /\ [][\A t \in Threads :
            LET r == th[t]
                q == th'[t]
                abort == InTx(r) /\ ~InTx(q) /\ q.status = r.saved
                                 /\ q.pc \notin {"cs", "cs_w", "cs_x"}
            IN  q.status # r.status =>
                  \/ /\ q.status \in HeldStatus
                     /\ r.status \in {UNKNOWN, UNLOCKED}
                     /\ q.pc = "cs"
                     /\ r.ops = 0 /\ ~r.outer => r.status = UNKNOWN
                  \/ /\ q.status = UNLOCKED
                     /\ r.status \in HeldStatus
                     /\ q.pc = "idle" /\ q.ops = r.ops + 1
                  \/ abort
       ]_vars

\* a handle whose first lock call elided the mutex from UNKNOWN has that
\* status again after a write of the lock word aborted the transaction
C36_Witness ==
    \E t \in Threads :
        /\ HTM /\ StatusTracked
        /\ th[t].status = UNKNOWN
        /\ th[t].ops = 0
        /\ th[t].cause = "lockword"
        /\ th[t].nr = 1
        /\ th[t].begins = 1
        /\ th[t].pc # "idle"

\* the steps thread t takes inside a call of lock() or lock_shared() of the
\* htm_spin_shared_mutex, from its entry to its return
HsmCallStep(t) ==
    \/ HlWait(t)
    \/ HlBegin(t)
    \/ HlCheck(t)
    \/ WlLoad(t)
    \/ WlCas(t)
    \/ WlOr(t)
    \/ WlLlsc(t)
    \/ WfSet(t)
    \/ RlLoad(t)
    \/ RlAdd(t)
    \/ RlUndo(t)
    \/ RlLlsc(t)

\* threads that call lock() or lock_shared() on one htm_spin_shared_mutex
\* whenever they like; a thread that is inside a call keeps executing it
NextHsmFree ==
    \/ \E t \in Threads : \E o \in {"x", "s"} : (Fresh(t) /\ HtmLock(t, o))
    \/ \E t \in Threads : HlWait(t)
    \/ \E t \in Threads : HlBegin(t)
    \/ \E t \in Threads : HlCheck(t)
    \/ \E t \in Threads : \E a \in HwAborts : HwAbort(t, a)
    \/ \E t \in Threads : WlLoad(t)
    \/ \E t \in Threads : WlCas(t)
    \/ \E t \in Threads : WlOr(t)
    \/ \E t \in Threads : WlLlsc(t)
    \/ \E t \in Threads : WfSet(t)
    \/ \E t \in Threads : RlLoad(t)
    \/ \E t \in Threads : RlAdd(t)
    \/ \E t \in Threads : RlUndo(t)
    \/ \E t \in Threads : RlLlsc(t)
    \/ \E t \in Threads : CsWork(t)
    \/ \E t \in Threads : HsmUnlock(t)
    \/ \E t \in Threads : HsmWriteUnlock(t)
    \/ \E t \in Threads : HsmUnlockShared(t)
    \/ \E t \in Threads : Again(t)

InitHsmFree ==
    /\ cfg \in HsmLiveBuilds
    /\ InitMemory(NThreads)

SpecHsmFree ==
    /\ InitHsmFree
    /\ [][NextHsmFree]_vars
    /\ \A t \in 1..NThreads : WF_vars(HsmCallStep(t))

\* thread t is inside lock() or lock_shared() of the htm_spin_shared_mutex
InHsmCall(t) == InHsmLock(t) \/ InReadLock(t)

\* no handle holds the mutex
NobodyHolds == \A t \in Threads : ~InCS(t) /\ th[t].pc # "wu_state"

\* C37: whenever no handle holds the HTM shared mutex and some thread is
\* inside lock() or lock_shared(), a thread inside such a call has a step to
\* take, and with the threads inside calls executing their steps some call
\* returns: the threads never all wait for ever on the rwlock word or the
\* writer flag while nobody holds the mutex.
C37_DeadlockFree ==
    /\ []((NobodyHolds /\ \E t \in Threads : InHsmCall(t)) =>
            \E t \in Threads : InHsmCall(t) /\ ENABLED HsmCallStep(t))
    /\ (NobodyHolds /\ \E t \in Threads : InHsmCall(t)) ~> (\E t \in Threads : InCS(t))

\* the handle of thread t is under a guard that holds nothing: one made with
\* defer_lock and never locked, or one whose unlock() has returned
GuardNotHolding(t) ==
    /\ th[t].pc = "idle"
    /\ ~InTx(th[t])
    /\ th[t].misuse = "none"
    /\ th[t].scope = "deferred" \/ (th[t].scope = "none" /\ th[t].ops > 0)

\* C38: the destructor of a tle::unique_lock or tle::shared_lock calls unlock
\* on the handle whatever the handle's status: for a guard made with
\* defer_lock and never locked the status is UNKNOWN, for a guard whose
\* unlock() has been called it is UNLOCKED, and in both cases (builds with
\* assertions) the unlock call is able to run and ends in the failing
\* assertion of the unlock operation with the status as it was.
C38_DestructorUnlocksUnconditionally ==
    /\ [](\A t \in Threads :
            /\ GuardNotHolding(t) =>
                  /\ th[t].status \in {UNKNOWN, UNLOCKED}
                  /\ th[t].scope = "deferred" => th[t].status = UNKNOWN
                  /\ th[t].scope = "none" => th[t].status = UNLOCKED
                  /\ ~StatusAccepted(th[t].op, th[t].status)
                  /\ th[t].scope = "deferred" => ENABLED ScopeExitDeferred(t)
                  /\ th[t].scope = "none" => ENABLED ScopeExitReleased(t)
            /\ (th[t].pc = "assert_failed" /\ th[t].misuse = "notheld") =>
                  th[t].status \in {UNKNOWN, UNLOCKED})
    /\ [][\A t \in Threads :
            LET r == th[t]
                q == th'[t]
            IN  /\ (r.scope = "deferred" /\ r.pc = "idle" /\ q.scope # "deferred"
                        /\ q.pc # "killed") =>
                      /\ q.pc = "assert_failed" /\ q.misuse = "notheld"
                      /\ q.status = r.status
                /\ (GuardNotHolding(t) /\ q # r /\ q.pc \notin {"killed", "idle"}) =>
                      \/ r.scope = "deferred" /\ q.scope = "deferred" /\ q.misuse = "none"
                      \/ /\ q.pc = "assert_failed" /\ q.misuse = "notheld"
                         /\ q.status = r.status
       ]_vars

\* the destructor of a guard on an htm_spin_shared_mutex handle, which the
\* caller had unlocked by the guard's unlock(), has failed the assertion of
\* the unlock operation on the UNLOCKED handle
C38_Witness ==
    \E t \in Threads :
        /\ kind = "hsm"
        /\ th[t].pc = "assert_failed"
        /\ th[t].misuse = "notheld"
        /\ th[t].status = UNLOCKED

\* NSpin threads on one libtle_spin_mutex, or NThreads threads on one
\* libtle_htm_spin_shared_mutex, each making lock/unlock pairs
InitWords ==
    \/ /\ cfg \in {Build(a, TRUE, "spin", 0, FALSE) : a \in {"x86", "aarch64", "generic"}}
       /\ InitMemory(NSpin)
    \/ /\ cfg \in HsmLiveBuilds
       /\ InitMemory(NThreads)

NextWords ==
    \/ \E t \in Threads : SpinMutexLock(t)
    \/ \E t \in Threads : SpinDec(t)
    \/ \E t \in Threads : SpinSpin(t)
    \/ \E t \in Threads : SpinTas(t)
    \/ \E t \in Threads : SpinMutexUnlock(t)
    \/ \E t \in Threads : \E o \in {"x", "s"} : HtmLock(t, o)
    \/ \E t \in Threads : HlWait(t)
    \/ \E t \in Threads : HlBegin(t)
    \/ \E t \in Threads : HlCheck(t)
    \/ \E t \in Threads : \E a \in HwAborts : HwAbort(t, a)
    \/ \E t \in Threads : WlLoad(t)
    \/ \E t \in Threads : WlCas(t)
    \/ \E t \in Threads : WlOr(t)
    \/ \E t \in Threads : WlLlsc(t)
    \/ \E t \in Threads : WfSet(t)
    \/ \E t \in Threads : RlLoad(t)
    \/ \E t \in Threads : RlAdd(t)
    \/ \E t \in Threads : RlUndo(t)
    \/ \E t \in Threads : RlLlsc(t)
    \/ \E t \in Threads : CsWork(t)
    \/ \E t \in Threads : HsmUnlock(t)
    \/ \E t \in Threads : HsmWriteUnlock(t)
    \/ \E t \in Threads : HsmUnlockShared(t)

SpecWords == InitWords /\ [][NextWords]_vars

\* the threads that have decremented the x86-64 word and wait for it to
\* become positive
Spinning == {t \in Threads : th[t].pc = "sl_spin"}

\* C39: on the x86-64 spin mutex with N threads the word stays between 1 - N
\* and 1; it is 1 exactly when no thread holds the lock, and below it by one
\* for the holder and by at most one for each waiting contender; it changes
\* only by the decrement of a lock call and by the store of an unlock call,
\* which sets it to 1 whatever it was.  The writer flag of the HTM shared
\* mutex is 0 or 1 and changes only to the busy value when lock() sets it
\* and to the free value when unlock() clears it.
C39_WordRange ==
    /\ []((kind = "spin" /\ arch = "x86") =>
            /\ slock \in (1 - Cardinality(Threads))..1
            /\ slock = 1 <=> Holders = {}
            /\ slock >= 1 - Cardinality(Holders) - Cardinality(Spinning)
            /\ Cardinality(Holders) <= 1)
    /\ [](kind = "hsm" => wflag \in {0, 1} /\ {SpinFree, SpinBusy} = {0, 1})
    /\ [][/\ (kind = "spin" /\ arch = "x86" /\ slock' # slock) =>
                \E t \in Threads :
                    \/ /\ th[t].pc = "sl_dec" /\ th'[t].pc \in {"cs", "sl_spin"}
                       /\ slock' = slock - 1
                       /\ th'[t].pc = "cs" <=> slock = 1
                    \/ /\ th[t].pc = "cs_x" /\ th'[t].pc = "idle"
                       /\ slock' = 1
          /\ (kind = "spin" /\ arch = "x86") =>
                \A t \in Threads :
                    (th[t].pc = "cs_x" /\ th'[t].pc = "idle") => slock' = 1
          /\ (kind = "hsm" /\ wflag' # wflag) =>
                \E t \in Threads :
                    \/ th[t].pc = "wf_set" /\ th'[t].pc = "cs" /\ wflag' = SpinBusy
                    \/ th[t].pc = "cs_x" /\ th'[t].pc = "wu_state" /\ wflag' = SpinFree
       ]_vars

\* three threads on the x86-64 spin mutex: the holder is about to release
\* while the decrements of the two contenders have left the word at -2
C39_Witness ==
    \E t \in Threads :
        /\ kind = "spin" /\ arch = "x86"
        /\ Cardinality(Threads) = 3
        /\ th[t].pc = "cs_x"
        /\ slock = -2
        /\ Spinning = Threads \ {t}

=============================================================================
